---- MODULE Spec2Model ----
(***************************************************************************)
(* A model of sockpuppet's dispatch-and-broadcast pipeline:                *)
(*   - Channel (channel.py): the operation batch and its broadcast();      *)
(*   - BaseConsumer (consumer.py): connect / disconnect / receive_json,    *)
(*     the invocation of a reflex and the re-render that follows it;       *)
(*   - Reflex (reflex.py): the invocation context and its morph().         *)
(*                                                                         *)
(* Strings are sequences of tokens.  The literals the code searches for    *)
(* or splits on ("specific.", "!", "#", "=", "%", "::") are tokens of      *)
(* their own, so `in`, split() and replace() are computed on the           *)
(* sequence as the code computes them on the characters.                   *)
(***************************************************************************)
EXTENDS Naturals, Integers, Sequences, FiniteSets, TLC

(***************************************************************************)
(* Bounds of the model.                                                    *)
(***************************************************************************)
\* operations queued in one batch between two broadcasts
MaxOps == 2
\* selectors in one invocation request
MaxSelectors == 2
\* fields one inbound message lacks
MaxMissing == 1
\* manual morph() calls of one handler method
MaxMorphs == 1
\* samples the counter store holds for one day
MaxSamples == 2
\* messages that arrive on one connection
MaxArrivals == 2

VARIABLES
    \* ---- one Channel instance, used on its own (channel.py) ----
    name,          \* Channel.name: the destination
    identifier,    \* Channel.identifier
    operations,    \* Channel.operations: kind -> sequence of option maps
    chSent,        \* what the latest broadcast() handed to the channel layer
    chRaised,      \* the exception the latest broadcast() ended with, or "none"
    chLastOp,      \* "new", "add" or "broadcast": the latest call on the instance
    chKey,         \* history: the kind the latest add_operation call named when
                   \*          it is none of the fixed kinds, else "none"
    chQueued,      \* history: add_operation calls per kind since the latest
                   \*          broadcast() that returned
    chBefore,      \* history: chQueued as it was when the latest broadcast() began
                   \*          (reset with chSent by the next add_operation)
    \* ---- the dict objects the operation methods of two Channel instances
    \*      are called with ----
    heap,          \* dict object -> its content: the object that is the
                   \*   default of a method's `options` parameter, and the
                   \*   objects callers passed
    queues,        \* per instance and kind: the objects in operations[kind]
    supplied       \* history: per instance and kind, the options each call
                   \*          supplied (options map and keyword arguments)

chVars == <<name, identifier, operations, chSent, chRaised, chLastOp, chKey,
            chQueued, chBefore, heap, queues, supplied>>

VARIABLES
    \* ---- the consumers (consumer.py) ----
    connState,     \* per connection: "Connecting", "Connected", "Disconnected",
                   \*   or "Failed" once an exception left receive_json
    session_key,   \* per connection: scope["session"].session_key, <<>> for None
    groups,        \* the channel layer's groups: pairs <<group, connection>>
    reflexes,      \* BaseConsumer.reflexes, the class-level registry (names)
    last           \* history: the latest inbound message and what processing
                   \*          it did

coVars == <<connState, session_key, groups, reflexes, last>>

VARIABLES
    \* ---- the counter store (the redis connection of receive_json) ----
    perf,          \* today's hashes "siu:perf:reflexes:<name>:<date>":
                   \*   name -> (field -> number)
    recorded       \* history: per name, the samples of the invocation messages
                   \*          whose processing returned today, in order

meVars == <<perf, recorded>>

VARIABLES
    \* ---- connections whose messages are processed at the same time (one
    \*      thread of the server each) ----
    pc,            \* per connection: the command its thread is about to send,
                   \*   <<"idle">> before and <<"done">> after
    measured,      \* per connection: cpu_time and wall_time of its invocation
    reply,         \* per connection: the reply to its latest hget, or what its
                   \*   lookup in the registry gave
    snapshot,      \* per connection: the classes its latest call of
                   \*   Reflex.__subclasses__() returned
    imported       \* the Reflex subclasses of the modules imported so far

thVars == <<pc, measured, reply, snapshot, imported>>

VARIABLES
    \* ---- the messages of a connection between their arrival and the
    \*      consumer's receive_json ----
    inbox,         \* per connection: the messages that have arrived and are
                   \*   not yet processed, each with its arrival number, and
                   \*   the number the next arrival gets
    wire           \* history: every publish made for an inbound message, in
                   \*          the order the channel layer got them

quVars == <<inbox, wire>>

vars == <<chVars, coVars, meVars, thVars, quVars>>

(***************************************************************************)
(* Strings                                                                 *)
(***************************************************************************)
\* `token in s`
Contains(s, token) == \E i \in 1..Len(s) : s[i] = token

\* s.split(sep): the parts of s between the occurrences of sep
RECURSIVE Split(_, _)
Split(s, sep) ==
    IF ~Contains(s, sep) THEN <<s>>
    ELSE LET i == CHOOSE j \in 1..Len(s) :
                      s[j] = sep /\ \A k \in 1..(j - 1) : s[k] # sep
         IN  <<SubSeq(s, 1, i - 1)>> \o Split(SubSeq(s, i + 1, Len(s)), sep)

(***************************************************************************)
(* utils.camelcase / utils.camelize_value (utils.py is not among the       *)
(* sources; modelled from the wire format: snake_case keys become          *)
(* camelCase keys, at every level of an option map).                       *)
(***************************************************************************)
camelcase(key) ==
    CASE key = "add_css_class"        -> "addCssClass"
      [] key = "dispatch_event"       -> "dispatchEvent"
      [] key = "inner_html"           -> "innerHtml"
      [] key = "insert_adjacent_html" -> "insertAdjacentHtml"
      [] key = "insert_adjacent_text" -> "insertAdjacentText"
      [] key = "outer_html"           -> "outerHtml"
      [] key = "remove_attribute"     -> "removeAttribute"
      [] key = "remove_css_class"     -> "removeCssClass"
      [] key = "set_attribute"        -> "setAttribute"
      [] key = "set_dataset_property" -> "setDatasetProperty"
      [] key = "set_style"            -> "setStyle"
      [] key = "set_value"            -> "setValue"
      [] key = "text_content"         -> "textContent"
      [] key = "children_only"        -> "childrenOnly"
      [] key = "permanent_attribute_name" -> "permanentAttributeName"
      [] key = "stimulus_reflex"      -> "stimulusReflex"
      [] key = "select_all"           -> "selectAll"
      [] OTHER                        -> key

camelize_keys(options) ==
    [ck \in {camelcase(k) : k \in DOMAIN options} |->
        options[CHOOSE k \in DOMAIN options : camelcase(k) = ck]]

\* an option map; "detail" is the option whose value is itself a map
camelize_option(options) ==
    [ck \in {camelcase(k) : k \in DOMAIN options} |->
        LET k == CHOOSE kk \in DOMAIN options : camelcase(kk) = ck
        IN  IF k = "detail" THEN camelize_keys(options[k]) ELSE options[k]]

camelize_value(value) == [i \in DOMAIN value |-> camelize_option(value[i])]

(***************************************************************************)
(* Channel (channel.py)                                                    *)
(***************************************************************************)
\* the keys of Channel.stub()
Kinds ==
    {"add_css_class", "dispatch_event", "inner_html", "insert_adjacent_html",
     "insert_adjacent_text", "morph", "outer_html", "remove_attribute",
     "remove_css_class", "remove", "set_attribute", "set_dataset_property",
     "set_style", "set_value", "text_content", "javascript", "data",
     "windowData", "consoleLog"}

stub == [k \in Kinds |-> <<>>]

\* json.dumps({"channel": n}).replace(" ", "") and the f-string of broadcast():
\* the text {"channel":"<n>"}
ChannelIdentifier(n) == <<"{\"channel\":\"">> \o n \o <<"\"}">>

\* Channel.__init__
NewChannel(n, ident) ==
    [name       |-> n,
     identifier |-> IF ident = <<>> THEN ChannelIdentifier(n) ELSE ident,
     operations |-> stub]

\* Channel.add_operation
add_operation(ch, key, options) ==
    [ch EXCEPT !.operations[key] = Append(@, options)]

\* a mutant of add_operation_call: a kind the map lacks is added to it
add_operation_setdefault(ch, key, options) ==
    [exc     |-> "none",
     channel |-> [ch EXCEPT !.operations =
                    (key :> Append(IF key \in DOMAIN @ THEN @[key] ELSE <<>>,
                                   options)) @@ @]]

\* a call of Channel.add_operation: self.operations[key] raises KeyError when
\* the map has no such kind, before anything is appended
add_operation_call(ch, key, options) ==
    IF key \in DOMAIN ch.operations
    THEN [exc |-> "none", channel |-> add_operation(ch, key, options)]
    ELSE [exc |-> "KeyError", channel |-> ch]

\* Channel.clear
clear(ch) == [ch EXCEPT !.operations = stub]

\* a mutant of Payload: the `if value` filter is missing
PayloadUnfiltered(ops) ==
    [ck \in {camelcase(k) : k \in Kinds} |->
        camelize_value(ops[CHOOSE k \in Kinds : camelcase(k) = ck])]

\* the dict comprehension of broadcast(): the kinds with a non-empty sequence
Payload(ops) ==
    [ck \in {camelcase(k) : k \in {kk \in Kinds : ops[kk] # <<>>}} |->
        camelize_value(ops[CHOOSE k \in Kinds : camelcase(k) = ck])]

\* the message dict of broadcast()
Message(ident, payload) ==
    [identifier |-> ident, type |-> "message", cableReady |-> TRUE,
     operations |-> payload]

\* one call of channel_layer.send / channel_layer.group_send: the layer
\* serialises the message when it is called, so what it delivers is the
\* message as it is at the call
Publish(via, to, message) == [via |-> via, to |-> to, message |-> message]

\* a mutant of the 'specific.' branch: the identifier is rewritten before the
\* first send
SpecificBranchRewriteFirst(ch, message) ==
    LET parts   == Split(ch.name, "!")
        message2 == [message EXCEPT !.identifier = ChannelIdentifier(parts[2])]
    IN  IF Len(parts) < 2
        THEN [out |-> <<Publish("send", ch.name, message)>>, exc |-> "IndexError"]
        ELSE [out |-> <<Publish("send", ch.name, message2),
                        Publish("group_send", parts[2], message2)>>,
              exc |-> "none"]

\* broadcast(), the branch `if 'specific.' in self.name`: send, rewrite the
\* identifier of the same dict, group_send.  name.split("!")[1] raises
\* IndexError, after the first send, when the name holds no "!".
SpecificBranch(ch, message) ==
    LET parts   == Split(ch.name, "!")
        first   == Publish("send", ch.name, message)
    IN  IF Len(parts) < 2
        THEN [out |-> <<first>>, exc |-> "IndexError"]
        ELSE LET message2 == [message EXCEPT
                                !.identifier = ChannelIdentifier(parts[2])]
             IN  [out |-> <<first, Publish("group_send", parts[2], message2)>>,
                  exc |-> "none"]

\* Channel.broadcast: what is handed to the channel layer, the exception it
\* ends with, and the instance afterwards (cleared only when no exception
\* interrupts it)
broadcast(ch) ==
    LET message == Message(ch.identifier, Payload(ch.operations))
        sent    == IF Contains(ch.name, "specific.")
                   THEN SpecificBranch(ch, message)
                   ELSE [out |-> <<Publish("group_send", ch.name, message)>>,
                         exc |-> "none"]
    IN  [out     |-> sent.out,
         exc     |-> sent.exc,
         channel |-> IF sent.exc = "none" THEN clear(ch) ELSE ch]

(***************************************************************************)
(* Connections, sessions and the handlers discovery finds                  *)
(***************************************************************************)
Conns == {"c1", "c2"}

\* self.channel_name: the channel layer's new_channel() names a connection
\* "specific.<process>!<random>"
channel_name(c) == <<"specific.", "proc", "!", c>>

\* a mutant of SessionOf: session.save() gives every session the same key
SessionOfShared(c) == <<"shared">>

\* the key session.save() gives the session of a connection
SessionOf(c) == IF c = "c1" THEN <<"sess1">> ELSE <<"sess2">>

\* the Reflex subclasses load_reflexes() finds; each has the method "run" and
\* inherits Reflex.reload
Registered == { <<"Counter">>, <<"Toast">> }
HandlerMethods == { <<"run">>, <<"reload">> }

Exc(cls, msg) == [cls |-> cls, msg |-> msg]
NoExc == Exc("none", "")

(***************************************************************************)
(* Inbound messages (the `data` of receive_json): records that hold only   *)
(* the keys the client sent.                                               *)
(***************************************************************************)
RECURSIVE Only(_, _)
Only(d, keys) ==
    LET k == CHOOSE x \in keys : TRUE
    IN  IF keys = {k} THEN k :> d[k] ELSE (k :> d[k]) @@ Only(d, keys \ {k})

\* the message d without the given keys (it keeps at least "target")
Without(d, keys) == Only(d, (DOMAIN d) \ keys)

RECURSIVE SeqsUpTo(_, _)
SeqsUpTo(S, n) ==
    IF n = 0 THEN { <<>> }
    ELSE SeqsUpTo(S, n - 1) \cup
         { Append(q, x) : q \in {r \in SeqsUpTo(S, n - 1) : Len(r) = n - 1}, x \in S }

Targets ==
    { <<"Counter", "#", "run">>,             \* a registered class and method
      <<"Toast", "#", "run">>,               \* a class with its own get_channel_id
      <<"Counter", "#", "nomethod">>,        \* no such method
      <<"Missing", "#", "run">>,             \* no such class
      <<"Counter">>,                         \* no '#'
      <<"Counter", "#", "run", "#", "x">> }  \* more than one '#'

SelectorLists == SeqsUpTo({"#a", "#b"}, MaxSelectors)
ArgLists == { <<>>, <<"x">> }

Complete(target, selectors, args) ==
    [target |-> target, url |-> "/page", selectors |-> selectors,
     identifier |-> <<"{\"channel\":\"", "sess1", "\"}">>, args |-> args,
     formData |-> "a=1", attrs |-> "attrs", reflexId |-> "r1",
     permanentAttributeName |-> "data-permanent"]

InvocationKeys ==
    {"url", "selectors", "identifier", "args", "formData", "attrs", "reflexId",
     "permanentAttributeName"}

\* requests that carry every field
Invocations ==
    { Complete(t, sl, a) : t \in Targets, sl \in SelectorLists, a \in ArgLists }

\* requests that lack between one and n of their fields
Incomplete(n) ==
    { Without(Complete(t, <<"#a">>, <<>>), L) :
        t \in Targets,
        L \in {M \in SUBSET InvocationKeys : Cardinality(M) \in 1..n} }


(***************************************************************************)
(* What the code's collaborators do during one message.  Each part is      *)
(* read only if processing gets there.                                     *)
(***************************************************************************)
\* a handler method: the parameters it declares, the notification it
\* publishes ("toast": send_toast, "data": consumer.broadcast_server_data),
\* the manual morph() calls it makes and whether it catches what they raise,
\* the exception it then raises
\* the arguments of a morph() call: none at all, a selector with html, or a
\* template alone ("None" stands for html=None)
NoMorphArgs == [selector |-> "", html |-> "None", template |-> ""]

MorphCalls ==
    { NoMorphArgs,
      [selector |-> "#manual", html |-> "<manual>", template |-> ""],
      [selector |-> "", html |-> "None", template |-> "t.html"] }

Behaviours ==
    { b : b \in
        { x \in { [params |-> p, morphs |-> m, morph_call |-> a, raises |-> r,
                     emits |-> "none", catches |-> FALSE] :
                    p \in 0..1, m \in 0..MaxMorphs, a \in MorphCalls,
                    r \in {"none", "ValueError", "TypeError"} } :
            x.morphs > 0 \/ x.morph_call = NoMorphArgs } }

DefaultBehaviour ==
    [params |-> 0, morphs |-> 0, morph_call |-> NoMorphArgs, raises |-> "none",
     emits |-> "none", catches |-> FALSE]

\* a template that render_to_string does not find
FailingTemplate == "missing.html"

\* handler methods that also publish notifications, name a template that
\* does not render, and may catch the exception of their morph() call
HandlerBehaviours ==
    { b : b \in
        { x \in { [params |-> p, morphs |-> m, morph_call |-> a, raises |-> r,
                     emits |-> e, catches |-> k] :
                    p \in 0..1, m \in 0..MaxMorphs,
                    a \in { NoMorphArgs,
                            [selector |-> "#manual", html |-> "<manual>",
                             template |-> ""],
                            [selector |-> "#manual", html |-> "None",
                             template |-> FailingTemplate] },
                    r \in {"none", "ValueError"},
                    e \in {"none", "toast", "data"},
                    k \in BOOLEAN } :
            /\ x.morphs > 0 \/ x.morph_call = NoMorphArgs
            /\ x.catches => (x.morphs > 0 /\ x.morph_call.template = FailingTemplate) } }

\* load_reflexes(): it returns, or an import raises and leaves the registry
\* as filled so far
Discoveries ==
    { [result |-> IF F = Registered THEN "ok" ELSE "fail", found |-> F] :
        F \in SUBSET Registered }

DefaultDiscovery == [result |-> "ok", found |-> Registered]

\* render_page(): markup, empty markup, or an exception
Renders == {"html", "empty", "raise"}

\* get_document_and_selectors / parse_out_html: the fragments, or an exception
Extracts == {"ok", "raise"}

\* the timers, the profiler and the counter store during one invocation
\* message: the measured times (ms), and whether the store answers
\* ("store_down": no command gets an answer; "store_drops": none after the
\* invocation does) and the profiler starts
MetricModes == {"ok", "store_down", "store_drops", "profiler_raises"}

Measured(mode, cpu, wall) == [mode |-> mode, cpu |-> cpu, wall |-> wall]

DefaultMetrics == Measured("ok", 1, 1)

DefaultEnv ==
    [disc |-> DefaultDiscovery, beh |-> DefaultBehaviour, render |-> "html",
     extract |-> "ok", metrics |-> DefaultMetrics]

(***************************************************************************)
(* Reflex (reflex.py)                                                      *)
(***************************************************************************)
\* a batch as it left the process: who made it, what broadcast() handed to
\* the channel layer, and the exception broadcast() ended with
Batch(origin, r) == [origin |-> origin, publishes |-> r.out, exc |-> r.exc]

\* `all(no_arguments) and not selector` of Reflex.morph
IsEmptyMorph(call) ==
    call.selector = "" /\ call.html = "None" /\ call.template = ""

\* the name of the event an empty morph dispatches
EmptyMorphEvent == "emptymorph"

\* Reflex.morph, the template branch: render_to_string raises
MorphFails(call) ==
    /\ ~IsEmptyMorph(call)
    /\ call.html = "None"
    /\ call.template = FailingTemplate

\* a mutant of is_morph_after: the flag is set once the batch is published
is_morph_after_published(beh) ==
    beh.morphs > 0 /\ ~MorphFails(beh.morph_call)

\* a mutant of is_morph_after: every broadcast of the handler sets the flag
is_morph_after_any_broadcast(beh) ==
    beh.morphs > 0 \/ beh.emits # "none"

\* reflex.is_morph when the method is left: False from __init__, and
\* `self.is_morph = True` is the first statement of morph()
is_morph_after(beh) == beh.morphs > 0

\* Reflex.send_toast: the toast markup, then the event that shows it, each
\* broadcast on its own to the connection's channel name
ReflexSendToast(c, ident) ==
    LET first  == broadcast(add_operation(NewChannel(channel_name(c), ident),
                      "insert_adjacent_html",
                      [selector |-> ".toast-container", html |-> "<toast>"]))
        second == broadcast(add_operation(first.channel, "dispatch_event",
                      [name |-> "toast", detail |-> [id |-> "t1"]]))
    IN  << Batch("toast", first), Batch("toast", second) >>

\* Reflex.morph: an event for an empty morph, else one morph operation;
\* either is broadcast to the connection's channel name
ReflexMorph(c, ident, data, call) ==
    LET broadcaster == NewChannel(channel_name(c), ident)
    IN  Batch("handler",
          broadcast(
            IF IsEmptyMorph(call)
            THEN add_operation(broadcaster, "dispatch_event",
                    [name   |-> EmptyMorphEvent,
                     detail |-> [stimulus_reflex |->
                                    [reflexId |-> data.reflexId, url |-> data.url]]])
            ELSE add_operation(broadcaster, "morph",
                    [selector |-> call.selector,
                     html |-> IF call.html # "None" THEN call.html ELSE "<rendered>",
                     children_only |-> TRUE,
                     select_all |-> FALSE, permanent_attribute_name |-> "None",
                     stimulus_reflex |-> "selector"])))

(***************************************************************************)
(* BaseConsumer (consumer.py)                                              *)
(***************************************************************************)
Replace(s, a, b) == [i \in 1..Len(s) |-> IF s[i] = a THEN b ELSE s[i]]

\* json.loads(channel_name) gives a {"channel": ...} object
IsEnvelope(s) ==
    Len(s) >= 2 /\ s[1] = "{\"channel\":\"" /\ s[Len(s)] = "\"}"

\* texts json.loads() accepts that are no object with a "channel" key
JsonNotEnvelope == { <<"5">> }

\* BaseConsumer._get_channelname
get_channelname(s) ==
    IF IsEnvelope(s)
    THEN [exc |-> "none", name |-> Replace(SubSeq(s, 2, Len(s) - 1), "::", "-")]
    ELSE IF s \in JsonNotEnvelope
    THEN [exc |-> "TypeError", name |-> <<>>]
    ELSE [exc |-> "none", name |-> s]

\* name.replace("=", "-").replace("%", "-")
TransportSafe(n) == Replace(Replace(n, "=", "-"), "%", "-")

\* the characters the channel layer accepts in no group name: group_add and
\* group_discard raise TypeError("Group name must be a valid unicode string
\* containing only ASCII alphanumerics, hyphens, underscores, or periods")
NotInGroupNames == {":", "::", "=", "%", " "}

valid_group_name(n) == n # <<>> /\ \A i \in 1..Len(n) : n[i] \notin NotInGroupNames

\* channel_layer.group_add(name, channel_name)
group_add(grp, n, c) ==
    IF valid_group_name(n) THEN [exc |-> "none", groups |-> grp \cup { <<n, c>> }]
    ELSE [exc |-> "TypeError", groups |-> grp]

\* a mutant of group_discard: discarding a channel that is no member raises
group_discard_strict(grp, n, c) ==
    IF valid_group_name(n) /\ <<n, c>> \in grp
    THEN [exc |-> "none", groups |-> grp \ { <<n, c>> }]
    ELSE [exc |-> "KeyError", groups |-> grp]

\* a mutant of group_discard: the group loses every member
group_discard_everyone(grp, n, c) ==
    IF valid_group_name(n)
    THEN [exc |-> "none", groups |-> { x \in grp : x[1] # n }]
    ELSE [exc |-> "TypeError", groups |-> grp]

\* a mutant of group_discard: the layer keeps the member
group_discard_keeps(grp, n, c) == [exc |-> "none", groups |-> grp]

\* channel_layer.group_discard(name, channel_name)
group_discard(grp, n, c) ==
    IF valid_group_name(n) THEN [exc |-> "none", groups |-> grp \ { <<n, c>> }]
    ELSE [exc |-> "TypeError", groups |-> grp]

\* a mutant of NotFoundText: the TypeError of calling None is reported as is
NotFoundTextRaw(cls) == <<"'NoneType' object is not callable">>

\* the texts of the error messages
NotFoundText(cls) ==
    <<"Sockpuppet tried to find a reflex class called ">> \o cls
        \o <<". Are you sure such a class exists?">>

InvokeText(target, url, e) ==
    <<"SockpuppetConsumer failed to invoke ">> \o target
        \o <<", with url ", url, ". ", e.cls, ": ", e.msg>>

RerenderText(url, e) ==
    <<"SockpuppetConsumer failed to re-render ", url, " ", e.cls, ": ", e.msg>>

LoadText(e) == <<"Reflex couldn't be loaded: ", e.msg>>

\* BaseConsumer.broadcast_error: one dispatch_event to the given destination
broadcast_error(destination, message, data) ==
    LET ident == IF "identifier" \in DOMAIN data THEN data.identifier
                 ELSE destination
    IN  Batch("error",
              broadcast(add_operation(NewChannel(destination, ident),
                  "dispatch_event",
                  [name   |-> "stimulus-reflex:server-message",
                   detail |-> [stimulus_reflex |->
                       [k \in DOMAIN data \cup {"identifier", "serverMessage"} |->
                           IF k = "serverMessage"
                           THEN [subject |-> "error", body |-> message]
                           ELSE IF k = "identifier" THEN ident
                           ELSE data[k]]]])))

\* BaseConsumer.broadcast_server_data(data, reflex), called by a handler with
\* a map that has no "identifier"
broadcast_server_data(destination, ident, reflexId) ==
    Batch("data",
          broadcast(add_operation(NewChannel(destination, ident), "data",
              [name     |-> "data",
               detail   |-> [stimulus_reflex |->
                               [identifier |-> ident, reflexId |-> reflexId]],
               response |-> [k |-> "v"]])))

\* the morph operations of broadcast_morphs, one per selector
RECURSIVE MorphAll(_, _, _)
MorphAll(ch, selectors, permanent) ==
    IF selectors = <<>> THEN ch
    ELSE MorphAll(add_operation(ch, "morph",
                      [selector |-> Head(selectors), html |-> "<fragment>",
                       children_only |-> TRUE,
                       permanent_attribute_name |-> permanent,
                       stimulus_reflex |-> "request"]),
                  Tail(selectors), permanent)

\* a mutant of broadcast_morphs: the batch goes to the session group
broadcast_morphs_to_session(c, selectors, data, permanent) ==
    Batch("auto",
          broadcast(MorphAll(NewChannel(SessionOf(c), data.identifier),
                             selectors, permanent)))

\* BaseConsumer.broadcast_morphs, once the fragments are extracted
broadcast_morphs(c, selectors, data, permanent) ==
    Batch("auto",
          broadcast(MorphAll(NewChannel(channel_name(c), data.identifier),
                             selectors, permanent)))

\* what processing one message did, step by step
NoTrace ==
    [entered     |-> FALSE,   \* reflex_message was called
     splitOk     |-> FALSE,   \* target.split("#") gave exactly two parts
     loaded      |-> FALSE,   \* load_reflexes() ran
     lookedUp    |-> FALSE,   \* self.reflexes.get(reflex_class_name) ran
     constructed |-> FALSE,   \* a Reflex instance exists
     calls       |-> 0,       \* how often the handler method was called
     invoked     |-> FALSE,   \* the handler method's body ran
     called_with |-> <<>>,    \* the arguments it was called with
     is_morph    |-> FALSE,   \* reflex.is_morph when the method returned
     rendered    |-> FALSE,   \* render_page() was called
     html        |-> "",      \* what it returned
     raised      |-> NoExc,   \* the exception that ended the invocation
     error       |-> "none",  \* which error broadcast was made
     used        |-> {}]      \* the collaborators that were called

Result(escaped, out, reg, tr) ==
    [escaped |-> escaped, out |-> out, reflexes |-> reg, trace |-> tr]

\* str(exc) of the `except TypeError` clause
TypeErrorText(e) == <<e.msg>>

\* a mutant of SkipsRerender: the flag is not looked at
SkipsRerenderNever(is_morph) == FALSE

\* `if reflex.is_morph: return` of render_page_and_broadcast_morph
SkipsRerender(is_morph) == is_morph

\* `if html:` of render_page_and_broadcast_morph
HasMarkup(html) == html # ""

\* the handler classes that override get_channel_id, and what theirs returns
Overriding == { <<"Toast">> }
OverriddenChannelId == <<"toasts">>

\* Reflex.get_channel_id: the session key, unless the class overrides it
get_channel_id(cls, skey) ==
    IF cls \in Overriding THEN OverriddenChannelId ELSE skey

\* broadcast_morphs: data.get("permanent_attribute_name") is there and truthy
HasLegacyPermanent(data) ==
    /\ "permanent_attribute_name" \in DOMAIN data
    /\ data.permanent_attribute_name # ""

\* BaseConsumer.render_page_and_broadcast_morph, with the `except` clause of
\* reflex_message around it: broadcast_error(msg, data, reflex) publishes to
\* reflex.get_channel_id()
RenderStage(c, channel_id, data, reg, env, tr, out, selectors) ==
    LET Failed(e, t) ==
            Result("none",
                   out \o <<broadcast_error(channel_id,
                                            RerenderText(data.url, e), data)>>,
                   reg, [t EXCEPT !.raised = e, !.error = "rerender"])
        t1 == [tr EXCEPT !.rendered = TRUE, !.used = @ \cup {"render"}]
        t2 == [t1 EXCEPT !.html = "<html>", !.used = @ \cup {"extract"}]
    IN  IF SkipsRerender(tr.is_morph) THEN Result("none", out, reg, tr)
        ELSE IF env.render = "raise" THEN Failed(Exc("Resolver404", "no view"), t1)
        ELSE IF ~HasMarkup(IF env.render = "html" THEN "<html>" ELSE "")
        THEN Result("none", out, reg, t1)
        ELSE IF env.extract = "raise"
        THEN Failed(Exc("SelectorSyntaxError", "bad selector"), t2)
        ELSE IF HasLegacyPermanent(data)
        THEN Result("none",
                    out \o <<broadcast_morphs(c, selectors, data,
                                              data.permanent_attribute_name)>>,
                    reg, t2)
        ELSE IF "permanentAttributeName" \notin DOMAIN data
        THEN Failed(Exc("KeyError", "'permanentAttributeName'"), t2)
        ELSE Result("none",
                    out \o <<broadcast_morphs(c, selectors, data,
                                              data.permanentAttributeName)>>,
                    reg, t2)

\* a mutant of returns_after_error: the `except` clause falls through to the
\* re-render
falls_through_after_error(c, channel_id, data, env, selectors, result) ==
    RenderStage(c, channel_id, data, result.reflexes, env, result.trace,
                result.out, selectors)

\* the `return` that ends the `except Exception` clause of the first `try`:
\* nothing follows its error broadcast
returns_after_error(c, channel_id, data, env, selectors, result) == result

\* a mutant of delegate_call_to_reflex: the arguments are always passed
delegate_call_always_passes(params, arguments) == arguments

\* BaseConsumer.delegate_call_to_reflex: what the method is called with
delegate_call_to_reflex(params, arguments) ==
    IF params = 0 THEN <<>> ELSE arguments

\* the first `try` of reflex_message: lookup, construction, delegate_call_to_reflex
InvokeStage(c, skey, data, reg, env, tr, parts, selectors, arguments) ==
    LET Generic(e, t, out) ==
            returns_after_error(c, skey, data, env, selectors,
                Result("none",
                       out \o <<broadcast_error(skey,
                                    InvokeText(data.target, data.url, e), data)>>,
                       reg, [t EXCEPT !.raised = e, !.error = "invoke"]))
        AsTypeError(e, t, out) ==
            Result("none",
                   out \o <<broadcast_error(skey, TypeErrorText(e), data)>>,
                   reg, [t EXCEPT !.raised = e, !.error = "type_error"])
        t1  == [tr EXCEPT !.lookedUp = TRUE]
        t2  == [t1 EXCEPT !.constructed = TRUE]
        beh == env.beh
        passed == delegate_call_to_reflex(beh.params, arguments)
        t3  == [t2 EXCEPT !.used = @ \cup {"beh"}, !.calls = @ + 1,
                          !.called_with = passed]
        t4  == [t3 EXCEPT !.invoked = TRUE, !.is_morph = is_morph_after(beh)]
        emitted ==
            CASE beh.emits = "toast" -> ReflexSendToast(c, data.identifier)
              [] beh.emits = "data"  ->
                    << broadcast_server_data(get_channel_id(parts[1], skey),
                                             data.identifier, data.reflexId) >>
              [] OTHER -> <<>>
        morphFails == beh.morphs > 0 /\ MorphFails(beh.morph_call)
        handlerOut ==
            emitted \o
            (IF morphFails THEN <<>>
             ELSE [i \in 1..beh.morphs |->
                     ReflexMorph(c, data.identifier, data, beh.morph_call)])
    IN  IF ~tr.splitOk
        THEN Generic(Exc("UnboundLocalError", "reflex_class_name"), tr, <<>>)
        ELSE IF "reflexId" \notin DOMAIN data
        THEN Generic(Exc("KeyError", "'reflexId'"), t1, <<>>)
        ELSE IF parts[1] \notin reg
        THEN Result("none",
                    <<broadcast_error(skey, NotFoundText(parts[1]), data)>>,
                    reg, [t1 EXCEPT !.raised = Exc("TypeError", "'NoneType' object is not callable"),
                                    !.error = "not_found"])
        ELSE IF parts[2] \notin HandlerMethods
        THEN Generic(Exc("AttributeError", "no such attribute"), t2, <<>>)
        ELSE IF Len(passed) # beh.params
        THEN AsTypeError(Exc("TypeError", "missing positional argument"), t3, <<>>)
        ELSE IF morphFails /\ ~beh.catches
        THEN Generic(Exc("TemplateDoesNotExist", FailingTemplate), t4, handlerOut)
        ELSE IF beh.raises = "TypeError"
        THEN AsTypeError(Exc("TypeError", "unsupported operand"), t4, handlerOut)
        ELSE IF beh.raises # "none"
        THEN Generic(Exc(beh.raises, "boom"), t4, handlerOut)
        ELSE RenderStage(c, get_channel_id(parts[1], skey), data, reg, env, t4,
                         handlerOut, selectors)

\* BaseConsumer.reflex_message.  The reads of data["url"], data["selectors"],
\* data["identifier"], data["formData"] and data["attrs"] stand outside every
\* `try`: a KeyError there leaves the method.
reflex_message(c, skey, data, reg, env) ==
    IF {"url", "selectors", "target", "identifier"} \ DOMAIN data # {}
    THEN Result("KeyError", <<>>, reg, [NoTrace EXCEPT !.entered = TRUE])
    ELSE
    LET selectors == IF data.selectors # <<>> THEN data.selectors ELSE <<"body">>
        parts     == Split(data.target, "#")
        arguments == IF "args" \in DOMAIN data THEN data.args ELSE <<>>
        t1        == [NoTrace EXCEPT !.entered = TRUE, !.splitOk = (Len(parts) = 2)]
        needLoad  == reg = {}
        reg2      == IF needLoad THEN env.disc.found ELSE reg
        t2        == [t1 EXCEPT !.loaded = needLoad,
                                !.used = IF needLoad THEN {"disc"} ELSE {}]
    IN  IF {"formData", "attrs"} \ DOMAIN data # {}
        THEN Result("KeyError", <<>>, reg, t1)
        ELSE IF needLoad /\ env.disc.result = "fail"
        THEN Result("none",
                    <<broadcast_error(skey,
                          LoadText(Exc("ModuleNotFoundError", "no module")), data)>>,
                    reg2,
                    [t2 EXCEPT !.raised = Exc("ModuleNotFoundError", "no module"),
                               !.error = "load"])
        ELSE InvokeStage(c, skey, data, reg2, env, t2, parts, selectors, arguments)

\* BaseConsumer.subscribe
subscribe(c, data, grp) ==
    IF "channelName" \notin DOMAIN data THEN [escaped |-> "KeyError", groups |-> grp]
    ELSE LET r == get_channelname(data.channelName)
         IN  IF r.exc # "none" THEN [escaped |-> r.exc, groups |-> grp]
             ELSE LET added == group_add(grp, TransportSafe(r.name), c)
                  IN  [escaped |-> added.exc, groups |-> added.groups]

\* BaseConsumer.unsubscribe
unsubscribe(c, data, grp) ==
    IF "channelName" \notin DOMAIN data THEN [escaped |-> "none", groups |-> grp]
    ELSE LET r == get_channelname(data.channelName)
         IN  IF r.exc # "none" THEN [escaped |-> r.exc, groups |-> grp]
             ELSE LET left == group_discard(grp, TransportSafe(r.name), c)
                  IN  [escaped |-> left.exc, groups |-> left.groups]

\* ---- the commands of the counter store, on the hashes of one day ----
NoRecords == <<>>

\* EXISTS key
exists(store, key) == key \in DOMAIN store

HashOf(store, key) == IF key \in DOMAIN store THEN store[key] ELSE <<>>

\* HSET key field value
hset(store, key, field, value) ==
    (key :> ((field :> value) @@ HashOf(store, key))) @@ store

\* HINCRBY / HINCRBYFLOAT key field amount
hincrby(store, key, field, amount) ==
    hset(store, key, field,
         IF field \in DOMAIN HashOf(store, key)
         THEN HashOf(store, key)[field] + amount ELSE amount)

\* HGET key field: the reply is None when the hash has no such field
hget(store, key, field) ==
    IF field \in DOMAIN HashOf(store, key)
    THEN [found |-> TRUE, value |-> HashOf(store, key)[field]]
    ELSE [found |-> FALSE, value |-> 0]

\* a mutant of MoreExtreme: a sample equal to the stored value counts too,
\* and a smaller one does not
MoreExtremeSwapped(sample, stored, field_is_min) ==
    IF field_is_min THEN sample >= stored ELSE sample <= stored

\* `wall_time < float(raw)` for a minimum, `wall_time > float(raw)` for a maximum
MoreExtreme(sample, stored, field_is_min) ==
    IF field_is_min THEN sample < stored ELSE sample > stored

\* one of the four blocks `if raw := hget(...): if sample <|> raw: hset(...)
\* else: hset(...)`
UpdateExtreme(store, key, field, sample, field_is_min) ==
    LET raw == hget(store, key, field)
    IN  IF raw.found
        THEN IF MoreExtreme(sample, raw.value, field_is_min)
             THEN hset(store, key, field, sample) ELSE store
        ELSE hset(store, key, field, sample)

\* receive_json, lines 205-263: the commands that record one sample
RecordSample(store, key, cpu_time, wall_time) ==
    LET s0 == IF ~exists(store, key) THEN hset(store, key, "count", 0) ELSE store
        s1 == hincrby(s0, key, "count", 1)
        s2 == hincrby(s1, key, "cpu_time_total", cpu_time)
        s3 == hincrby(s2, key, "wall_time_total", wall_time)
        s4 == UpdateExtreme(s3, key, "wall_time_min", wall_time, TRUE)
        s5 == UpdateExtreme(s4, key, "wall_time_max", wall_time, FALSE)
        s6 == UpdateExtreme(s5, key, "cpu_time_min", cpu_time, TRUE)
    IN  UpdateExtreme(s6, key, "cpu_time_max", cpu_time, FALSE)

\* a mutant of handled_as: a message with a target is an invocation, whatever
\* its type
handled_as_target_first(data) ==
    IF "target" \in DOMAIN data /\ data.target # <<>> THEN "invocation"
    ELSE IF "type" \in DOMAIN data /\ data.type \in {"subscribe", "unsubscribe"}
    THEN data.type
    ELSE "unsupported"

\* the branches of receive_json: `message_type is None and data.get("target")`,
\* `message_type == "subscribe"`, `message_type == "unsubscribe"`, else
handled_as(data) ==
    LET message_type == IF "type" \in DOMAIN data THEN data.type ELSE "None"
    IN  IF message_type = "None" /\ "target" \in DOMAIN data /\ data.target # <<>>
        THEN "invocation"
        ELSE IF message_type = "subscribe" THEN "subscribe"
        ELSE IF message_type = "unsubscribe" THEN "unsubscribe"
        ELSE "unsupported"

\* BaseConsumer.receive_json: an invocation (no type, a target), a control
\* message, or "Unsupported".  Around reflex_message stand the timers, the
\* profiler and the commands of the counter store, none of them in a `try`.
\* The keys that hold the latest durations and the profiler's output are
\* written and never read by the consumer; they are left out.
receive_json(c, skey, data, reg, grp, env, store) ==
    LET branch == handled_as(data)
        Control(op, r) ==
            [op |-> op, escaped |-> r.escaped, out |-> <<>>, reflexes |-> reg,
             groups |-> r.groups, trace |-> NoTrace, perf |-> store]
        Before(exc) ==
            [op |-> "invocation", escaped |-> exc, out |-> <<>>, reflexes |-> reg,
             groups |-> grp, trace |-> NoTrace, perf |-> store]
        After(r) ==
            [op |-> "invocation", out |-> r.out, reflexes |-> r.reflexes,
             groups |-> grp, trace |-> r.trace,
             escaped |-> IF r.escaped # "none" THEN r.escaped
                         ELSE IF env.metrics.mode = "store_drops"
                         THEN "ConnectionError" ELSE "none",
             perf |-> IF r.escaped # "none" \/ env.metrics.mode = "store_drops"
                      THEN store
                      ELSE RecordSample(store, data.target,
                                        env.metrics.cpu, env.metrics.wall)]
    IN  IF branch = "invocation"
        THEN IF env.metrics.mode = "store_down" THEN Before("ConnectionError")
             ELSE IF env.metrics.mode = "profiler_raises" THEN Before("RuntimeError")
             ELSE After(reflex_message(c, skey, data, reg, env))
        ELSE IF branch = "subscribe"
        THEN Control("subscribe", subscribe(c, data, grp))
        ELSE IF branch = "unsubscribe"
        THEN Control("unsubscribe", unsubscribe(c, data, grp))
        ELSE Control("unsupported", [escaped |-> "none", groups |-> grp])

(***************************************************************************)
(* The Channel on its own: destinations, identifiers and option maps a     *)
(* caller may pass.                                                        *)
(***************************************************************************)
Destinations ==
    { <<"g">>,                                   \* a plain group name
      <<"specific.", "a", "!", "g">>,            \* the composite form
      <<"specific.", "b", "!", "h">>,
      <<"specific.", "a">>,                      \* 'specific.' and no "!"
      <<"x", "specific.", "a", "!", "g">>,       \* 'specific.' inside the name
      <<"team", "specific.">>,
      <<"a", "!", "g">> }                        \* "!" and no 'specific.'

\* "" (none given) or a client's token
Identifiers == { <<>>, <<"I">> }

OptionMaps ==
    { [selector |-> "#a", html |-> "<p>", children_only |-> "true"],
      [name |-> "evt"] }

\* "specific.<name>!<group>"
IsComposite(n) ==
    /\ Len(n) >= 4
    /\ n[1] = "specific."
    /\ Len(Split(n, "!")) = 2
    /\ Len(Split(n, "!")[1]) >= 2
    /\ Len(Split(n, "!")[2]) >= 1
    /\ ~Contains(SubSeq(n, 2, Len(n)), "specific.")

GroupPart(n) == Split(n, "!")[2]

TotalQueued(ops) ==
    LET RECURSIVE Sum(_)
        Sum(S) == IF S = {} THEN 0
                  ELSE LET k == CHOOSE x \in S : TRUE
                       IN  Len(ops[k]) + Sum(S \ {k})
    IN  Sum(Kinds)

ThisChannel == [name |-> name, identifier |-> identifier, operations |-> operations]

NoLast ==
    [op |-> "none", conn |-> "none", data |-> [type |-> "none"],
     beh |-> DefaultBehaviour, metrics |-> DefaultMetrics, escaped |-> "none",
     out |-> <<>>, trace |-> NoTrace, after_not_found |-> FALSE,
     groups_before |-> {}]

\* no message waits, none was processed
NoInbox == [next |-> 1, queue |-> <<>>]

NothingArrived ==
    /\ inbox = [c \in Conns |-> NoInbox]
    /\ wire = <<>>

\* no two messages are processed at the same time
NoReply == [found |-> FALSE, value |-> 0]
NoSample == [cpu |-> 0, wall |-> 0]

OneAtATime ==
    /\ pc = [c \in Conns |-> <<"idle">>]
    /\ measured = [c \in Conns |-> NoSample]
    /\ reply = [c \in Conns |-> NoReply]
    /\ snapshot = [c \in Conns |-> {}]
    /\ imported = {}
    /\ NothingArrived

\* the consumers before any connection is accepted; the registry is empty
\* (BaseConsumer.reflexes = {}) or already filled (SockpuppetConsumer's
\* constructor ran discovery)
CoStart ==
    /\ connState = [c \in Conns |-> "Connecting"]
    /\ session_key \in [Conns -> { <<>>, <<"sess1">>, <<"sess2">> }]
    /\ \A c \in Conns : session_key[c] \in { <<>>, SessionOf(c) }
    /\ groups = {}
    /\ reflexes \in { {}, Registered }
    /\ last = NoLast
    /\ perf = NoRecords
    /\ recorded = NoRecords
    /\ OneAtATime

\* two Channel instances whose operation methods are called
Batches == {"b1", "b2"}
OpMethods == {"dispatch_event", "morph"}

\* the dict object `options={}` evaluated to when the method was defined
DefaultOf(method) == <<"default", method>>

\* no operation method has been called since the module was imported
OpIdle ==
    /\ heap = [o \in {DefaultOf(method) : method \in OpMethods} |-> <<>>]
    /\ queues = [b \in Batches |-> [method \in OpMethods |-> <<>>]]
    /\ supplied = [b \in Batches |-> [method \in OpMethods |-> <<>>]]

\* a Channel that no caller has touched
ChIdle ==
    /\ OpIdle
    /\ name = <<"g">>
    /\ identifier = ChannelIdentifier(<<"g">>)
    /\ operations = stub
    /\ chSent = <<>>
    /\ chRaised = "none"
    /\ chLastOp = "new"
    /\ chKey = "none"
    /\ chQueued = [k \in Kinds |-> 0]
    /\ chBefore = [k \in Kinds |-> 0]

ChInit ==
    /\ connState = [c \in Conns |-> "Connecting"]
    /\ session_key = [c \in Conns |-> <<>>]
    /\ groups = {}
    /\ reflexes = {}
    /\ last = NoLast
    /\ perf = NoRecords
    /\ recorded = NoRecords
    /\ OneAtATime
    /\ OpIdle
    /\ \E n \in Destinations, i \in Identifiers :
          /\ name = NewChannel(n, i).name
          /\ identifier = NewChannel(n, i).identifier
          /\ operations = NewChannel(n, i).operations
    /\ chSent = <<>>
    /\ chRaised = "none"
    /\ chLastOp = "new"
    /\ chKey = "none"
    /\ chQueued = [k \in Kinds |-> 0]
    /\ chBefore = [k \in Kinds |-> 0]

\* the kinds a caller may name: the fixed ones, one the client library knows
\* and stub() lacks, and a misspelt one
UnknownKinds == {"set_property", "morf"}
AnyKinds == { k : k \in Kinds \cup UnknownKinds }

\* a caller queues one operation (dispatch_event, morph, inner_html, ...), or
\* calls add_operation with a kind of its own
AddOperation(kinds) ==
    /\ TotalQueued(operations) < MaxOps
    /\ \E key \in kinds, options \in OptionMaps :
          LET r == add_operation_call(ThisChannel, key, options)
          IN  /\ operations' = r.channel.operations
              /\ chRaised' = r.exc
              /\ chKey' = IF key \in Kinds THEN "none" ELSE key
              /\ chQueued' = IF r.exc = "none"
                             THEN [chQueued EXCEPT ![key] = @ + 1]
                             ELSE chQueued
    /\ chLastOp' = "add"
    /\ chSent' = <<>>
    /\ chBefore' = [k \in Kinds |-> 0]
    /\ UNCHANGED <<name, identifier, heap, queues, supplied, coVars, meVars, thVars, quVars>>

\* a caller calls broadcast()
Broadcast ==
    LET r == broadcast(ThisChannel)
    IN  /\ operations' = r.channel.operations
        /\ chSent' = r.out
        /\ chRaised' = r.exc
        /\ chLastOp' = "broadcast"
        /\ chKey' = "none"
        /\ chBefore' = chQueued
        /\ chQueued' = IF r.exc = "none" THEN [k \in Kinds |-> 0] ELSE chQueued
        /\ UNCHANGED <<name, identifier, heap, queues, supplied, coVars, meVars, thVars, quVars>>

ChNext == AddOperation(Kinds) \/ Broadcast

SpecChannel == ChInit /\ [][ChNext]_vars

\* one Channel whose callers also name kinds of their own
KindsInit ==
    /\ connState = [c \in Conns |-> "Connecting"]
    /\ session_key = [c \in Conns |-> <<>>]
    /\ groups = {}
    /\ reflexes = {}
    /\ last = NoLast
    /\ perf = NoRecords
    /\ recorded = NoRecords
    /\ OneAtATime
    /\ ChIdle

KindsNext == AddOperation(AnyKinds) \/ Broadcast

SpecKinds == KindsInit /\ [][KindsNext]_vars

(***************************************************************************)
(* The operation methods (dispatch_event, morph, ...) called on two        *)
(* Channel instances, with an options map, with keyword arguments, or      *)
(* with both.                                                              *)
(***************************************************************************)
\* the options maps and the keyword arguments a caller passes
PassedMaps == { <<>>, [name |-> "evt"] }
KeywordArgs == { kw : kw \in { <<>>, [name |-> "other"], [detail |-> "d"] } }

\* dict.update: the keys of `other` are set in `d`
update(d, other) == other @@ d

\* dispatch_event, morph, ...: options.update(kwargs), then
\* self.add_operation(kind, options); `options` is the object obj
op_method(hp, queue, obj, kwargs) ==
    [heap  |-> [hp EXCEPT ![obj] = update(@, kwargs)],
     queue |-> Append(queue, obj)]

TotalCalls ==
    LET RECURSIVE Sum(_)
        Sum(S) == IF S = {} THEN 0
                  ELSE LET x == CHOOSE y \in S : TRUE
                       IN  Len(queues[x[1]][x[2]]) + Sum(S \ {x})
    IN  Sum(Batches \X OpMethods)

\* instance.method(options, **kwargs) with a dict the caller has just built
CallWithOptions(b, method) ==
    /\ TotalCalls < MaxOps
    /\ \E options \in PassedMaps, kwargs \in KeywordArgs :
          LET obj == <<"caller", TotalCalls + 1>>
              r   == op_method(obj :> options @@ heap, queues[b][method],
                               obj, kwargs)
          IN  /\ heap' = r.heap
              /\ queues' = [queues EXCEPT ![b][method] = r.queue]
              /\ supplied' = [supplied EXCEPT ![b][method] =
                                 Append(@, update(options, kwargs))]
    /\ UNCHANGED <<name, identifier, operations, chSent, chRaised, chLastOp,
                   chKey, chQueued, chBefore, coVars, meVars, thVars, quVars>>

\* instance.method(**kwargs): `options` is the method's default object
CallWithKeywords(b, method) ==
    /\ TotalCalls < MaxOps
    /\ \E kwargs \in KeywordArgs :
          LET r == op_method(heap, queues[b][method], DefaultOf(method), kwargs)
          IN  /\ heap' = r.heap
              /\ queues' = [queues EXCEPT ![b][method] = r.queue]
              /\ supplied' = [supplied EXCEPT ![b][method] = Append(@, kwargs)]
    /\ UNCHANGED <<name, identifier, operations, chSent, chRaised, chLastOp,
                   chKey, chQueued, chBefore, coVars, meVars, thVars, quVars>>

OptionsNext ==
    \E b \in Batches, method \in OpMethods :
        \/ CallWithOptions(b, method)
        \/ CallWithKeywords(b, method)

SpecOptions == KindsInit /\ [][OptionsNext]_vars

(***************************************************************************)
(* The consumers: connect, disconnect and one inbound message at a time    *)
(***************************************************************************)
\* BaseConsumer.connect: accept, make sure the session has a key, join the
\* session group, and send the cookie message if the key is new
Connect(c) ==
    /\ connState[c] = "Connecting"
    /\ LET has_session_key == session_key[c] # <<>>
           key == IF has_session_key THEN session_key[c] ELSE SessionOf(c)
           cookie == [origin    |-> "cookie",
                      publishes |-> <<Publish("group_send", key,
                                        [type |-> "message", meta_type |-> "cookie",
                                         key |-> "sessionid", value |-> key,
                                         max_age |-> 3600])>>,
                      exc       |-> "none"]
       IN  /\ session_key' = [session_key EXCEPT ![c] = key]
           /\ groups' = groups \cup { <<key, c>> }
           /\ last' = [NoLast EXCEPT !.op = "connect", !.conn = c,
                                     !.groups_before = groups,
                                     !.out = IF has_session_key THEN <<>>
                                             ELSE <<cookie>>]
    /\ connState' = [connState EXCEPT ![c] = "Connected"]
    /\ UNCHANGED <<reflexes, chVars, meVars, thVars, quVars>>

\* a mutant of DiscardedAs: the part before the group's name is taken
DiscardedAsSecondPart(g) == Split(<<"asgi", ":", "group", ":">> \o g, ":")[2]

\* the group a key "asgi:group:<g>" of the layer's store is discarded as:
\* key.split(":")[2]
DiscardedAs(g) == Split(<<"asgi", ":", "group", ":">> \o g, ":")[3]

\* group_discard(n, channel_name) for every n of `names`, up to the first
\* that raises
RECURSIVE discard_all(_, _, _)
discard_all(grp, names, c) ==
    IF names = {} THEN [exc |-> "none", groups |-> grp]
    ELSE LET n == CHOOSE x \in names : TRUE
             r == group_discard(grp, n, c)
         IN  IF r.exc # "none" THEN r ELSE discard_all(r.groups, names \ {n}, c)

\* BaseConsumer.disconnect: discard the channel from the group of every key
\* of the layer's store and from the session group
disconnect(c, skey, grp) ==
    discard_all(grp, { DiscardedAs(m[1]) : m \in grp } \cup { skey }, c)

Disconnect(c) ==
    /\ connState[c] = "Connected"
    /\ LET r == disconnect(c, session_key[c], groups)
       IN  /\ groups' = r.groups
           /\ last' = [NoLast EXCEPT !.op = "disconnect", !.conn = c,
                                     !.escaped = r.exc,
                                     !.groups_before = groups]
    /\ connState' = [connState EXCEPT ![c] = "Disconnected"]
    /\ UNCHANGED <<session_key, reflexes, chVars, meVars, thVars, quVars>>

\* disconnect() is run once more for a connection that has disconnected
DisconnectAgain(c) ==
    /\ connState[c] = "Disconnected"
    /\ LET r == disconnect(c, session_key[c], groups)
       IN  /\ groups' = r.groups
           /\ last' = [NoLast EXCEPT !.op = "disconnect_again", !.conn = c,
                                     !.escaped = r.exc,
                                     !.groups_before = groups]
    /\ UNCHANGED <<connState, session_key, reflexes, chVars, meVars, thVars, quVars>>

\* one inbound message, drawn from `messages`, is received and processed to
\* its end; an exception that leaves receive_json ends the consumer.  The
\* answers of the collaborators are drawn from `world`, and only where
\* processing asks for them.
Receive(c, messages, world) ==
    /\ connState[c] = "Connected"
    /\ last.op = "none"
    /\ \E data \in messages :
       \E r0 \in {receive_json(c, session_key[c], data, reflexes, groups,
                               DefaultEnv, perf)} :
       \E metrics \in (IF r0.op = "invocation" THEN world.metrics
                       ELSE {DefaultMetrics}) :
       \E disc \in (IF "disc" \in r0.trace.used THEN world.discs
                    ELSE {DefaultDiscovery}) :
       \E r1 \in {receive_json(c, session_key[c], data, reflexes, groups,
                               [DefaultEnv EXCEPT !.disc = disc], perf)} :
       \E beh \in (IF "beh" \in r1.trace.used THEN world.behs
                   ELSE {DefaultBehaviour}) :
       \E r2 \in {receive_json(c, session_key[c], data, reflexes, groups,
                               [DefaultEnv EXCEPT !.disc = disc, !.beh = beh],
                               perf)} :
       \E render \in (IF "render" \in r2.trace.used THEN world.renders
                      ELSE {"html"}) :
       \E extract \in (IF "render" \in r2.trace.used /\ render = "html"
                       THEN world.extracts ELSE {"ok"}) :
       \E r \in {receive_json(c, session_key[c], data, reflexes, groups,
                              [disc |-> disc, beh |-> beh, render |-> render,
                               extract |-> extract, metrics |-> metrics],
                              perf)} :
           /\ reflexes' = r.reflexes
           /\ groups' = r.groups
           /\ perf' = r.perf
           /\ recorded' =
                 IF r.op = "invocation" /\ r.escaped = "none"
                 THEN (data.target :>
                          Append(IF data.target \in DOMAIN recorded
                                 THEN recorded[data.target] ELSE <<>>,
                                 [cpu |-> metrics.cpu, wall |-> metrics.wall]))
                      @@ recorded
                 ELSE recorded
           /\ connState' = IF r.escaped = "none" THEN connState
                           ELSE [connState EXCEPT ![c] = "Failed"]
           /\ last' = [op |-> r.op, conn |-> c, data |-> data, beh |-> beh,
                       metrics |-> metrics,
                       escaped |-> r.escaped, out |-> r.out, trace |-> r.trace,
                       after_not_found |-> last.after_not_found,
                       groups_before |-> groups]
    /\ UNCHANGED <<session_key, chVars, thVars>>

\* the message is handed to receive_json as it arrives
ReceiveJson(c, messages, world) ==
    /\ Receive(c, messages, world)
    /\ UNCHANGED quVars

\* the date changes: from now on the commands address the hashes of a new day
NewDay ==
    /\ perf # NoRecords
    /\ last.op = "none"
    /\ perf' = NoRecords
    /\ recorded' = NoRecords
    /\ UNCHANGED <<chVars, coVars, thVars, quVars>>

\* samples recorded today
TotalRecorded ==
    LET RECURSIVE Sum(_)
        Sum(S) == IF S = {} THEN 0
                  ELSE LET k == CHOOSE x \in S : TRUE
                       IN  Len(recorded[k]) + Sum(S \ {k})
    IN  Sum(DOMAIN recorded)

\* history only: the record of the processed message is dropped, but for
\* whether it ended with the handler class not found, and the connection
\* turns to its next inbound message
Forget ==
    /\ last.op # "none"
    /\ last' = [NoLast EXCEPT !.after_not_found =
                                 /\ last.op = "invocation"
                                 /\ last.trace.error = "not_found"]
    /\ UNCHANGED <<connState, session_key, groups, reflexes, chVars, meVars, thVars, quVars>>

\* the channelName texts of the control messages: a plain name, an envelope
\* whose name holds "::", a name with '=' and '%', a number, a name with ':'
ChannelNames ==
    { <<"Room1">>,
      <<"{\"channel\":\"", "Room", "::", "1", "\"}">>,
      <<"a", "=", "b", "%", "c">>,
      <<"5">>,
      <<"a", ":", "b">> }

\* the control messages Spec sends, one for each way they end
SpecControls ==
    { [type |-> t, channelName |-> s] :
          t \in {"subscribe", "unsubscribe"}, s \in ChannelNames }
    \cup
    { [type |-> "subscribe"],
      [type |-> "unsubscribe"],
      [type |-> "ping"],
      [reflexId |-> "r1"] }

\* the messages Spec sends
\* a request of a client older than stimulus-reflex 3.4: the attribute name
\* under its snake_case key only
Legacy ==
    [permanent_attribute_name |-> "data-legacy"] @@
    Without(Complete(<<"Counter", "#", "run">>, <<"#a">>, <<>>),
            {"permanentAttributeName"})

Messages ==
    { m : m \in Invocations \cup Incomplete(MaxMissing) \cup SpecControls
                 \cup {Legacy} }

\* the connection whose messages Spec follows
Followed == {"c1"}

Init ==
    /\ CoStart
    /\ \A c \in Conns \ Followed : session_key[c] = <<>>
    /\ ChIdle

\* what the collaborators of Spec may answer; its counter store answers
World ==
    [discs |-> Discoveries, behs |-> Behaviours, renders |-> Renders,
     extracts |-> Extracts, metrics |-> {DefaultMetrics}]

\* Spec follows the records of a day up to its first sample
Next ==
    \/ \E c \in Followed :
        \/ Connect(c)
        \/ Disconnect(c)
        \/ (TotalRecorded = 0 /\ ReceiveJson(c, Messages, World))
    \/ Forget
    \/ NewDay

Spec == Init /\ [][Next]_vars

(***************************************************************************)
(* The counter store over a day: a few handlers, every way the timers, the *)
(* profiler and the store may go, the times that were measured.            *)
(***************************************************************************)
\* messages that carry a type and a target, an empty target, or neither
Discriminating ==
    LET full == Complete(<<"Counter", "#", "run">>, <<"#a">>, <<>>)
    IN  { ("type" :> "subscribe" @@ "channelName" :> <<"Room1">>) @@ full,
          ("type" :> "unsubscribe" @@ "channelName" :> <<"Room1">>) @@ full,
          ("type" :> "ping") @@ full,
          ("target" :> <<>>) @@ full,
          Without(full, {"target"}) }

MetricMessages ==
    { m : m \in
        { Complete(t, <<"#a">>, <<>>) :
            t \in { <<"Counter", "#", "run">>, <<"Counter", "#", "reload">>,
                    <<"Missing", "#", "run">> } }
        \cup Discriminating }

MetricWorld ==
    [discs    |-> {DefaultDiscovery},
     behs     |-> { DefaultBehaviour,
                    [DefaultBehaviour EXCEPT !.raises = "ValueError"] },
     renders  |-> {"html"},
     extracts |-> {"ok"},
     metrics  |-> { Measured("ok", 1, 2), Measured("ok", 2, 1),
                    Measured("ok", 3, 3), Measured("store_down", 1, 1),
                    Measured("store_drops", 1, 1),
                    Measured("profiler_raises", 1, 1) }]

MetricsNext ==
    \/ \E c \in Followed :
        \/ Connect(c)
        \/ (TotalRecorded < MaxSamples /\ ReceiveJson(c, MetricMessages, MetricWorld))
    \/ Forget
    \/ NewDay

SpecMetrics == Init /\ [][MetricsNext]_vars

(***************************************************************************)
(* Handler methods: what they declare, publish and catch, and the args of  *)
(* the request.                                                            *)
(***************************************************************************)
HandlerMessages ==
    { m : m \in
        { Complete(t, <<"#a">>, a) :
            t \in { <<"Counter", "#", "run">>, <<"Toast", "#", "run">> },
            a \in ArgLists }
        \cup { Without(Complete(<<"Counter", "#", "run">>, <<"#a">>, <<>>),
                       {"args"}) } }

HandlerWorld ==
    [discs    |-> {DefaultDiscovery},
     behs     |-> HandlerBehaviours,
     renders  |-> {"html", "empty"},
     extracts |-> {"ok"},
     metrics  |-> {DefaultMetrics}]

HandlersNext ==
    \/ \E c \in Followed :
        \/ Connect(c)
        \/ (TotalRecorded = 0 /\ ReceiveJson(c, HandlerMessages, HandlerWorld))
    \/ Forget
    \/ NewDay

SpecHandlers == Init /\ [][HandlersNext]_vars

(***************************************************************************)
(* Group membership: two connections, which may belong to one session (two *)
(* tabs of a browser), connect, send control messages and disconnect.      *)
(***************************************************************************)
GroupsInit ==
    /\ connState = [c \in Conns |-> "Connecting"]
    /\ session_key \in [Conns -> { <<>>, <<"shared">> }]
    /\ groups = {}
    /\ reflexes = Registered
    /\ last = NoLast
    /\ perf = NoRecords
    /\ recorded = NoRecords
    /\ OneAtATime
    /\ ChIdle

ControlMessages == { m : m \in SpecControls }

GroupsNext ==
    \/ \E c \in Conns :
        \/ Connect(c)
        \/ Disconnect(c)
        \/ DisconnectAgain(c)
        \/ ReceiveJson(c, ControlMessages, World)
    \/ Forget

SpecGroups == GroupsInit /\ [][GroupsNext]_vars

(***************************************************************************)
(* Control messages that name a session group: the client was told its     *)
(* session key by the cookie message of connect.                           *)
(***************************************************************************)
SessionNames ==
    { n : n \in { <<"Room1">>, <<"shared">> } \cup { SessionOf(c) : c \in Conns } }

SessionMessages ==
    { m : m \in
        { [type |-> t, channelName |-> s] :
            t \in {"subscribe", "unsubscribe"}, s \in SessionNames }
        \cup { Complete(<<"Counter", "#", "run">>, <<"#a">>, <<>>),
               Complete(<<"Missing", "#", "run">>, <<"#a">>, <<>>) } }

SessionWorld ==
    [discs    |-> {DefaultDiscovery},
     behs     |-> { DefaultBehaviour,
                    [DefaultBehaviour EXCEPT !.raises = "ValueError"] },
     renders  |-> {"html"},
     extracts |-> {"ok"},
     metrics  |-> {DefaultMetrics}]

SessionNext ==
    \/ \E c \in Conns :
        \/ Connect(c)
        \/ Disconnect(c)
        \/ (TotalRecorded = 0 /\ ReceiveJson(c, SessionMessages, SessionWorld))
    \/ Forget
    \/ NewDay

SpecSession == GroupsInit /\ [][SessionNext]_vars

(***************************************************************************)
(* Arrival order: the messages of one connection wait in its inbox until   *)
(* the consumer's dispatch loop hands them to receive_json.  The loop is   *)
(* the framework's; it takes the messages in the order they arrived and    *)
(* hands over the next one when receive_json has returned.                 *)
(***************************************************************************)
OrderMessages ==
    { m : m \in { Complete(<<"Counter", "#", "run">>, <<"#a">>, <<>>),
                  Complete(<<"Missing", "#", "run">>, <<"#a">>, <<>>) } }

OrderWorld ==
    [discs    |-> {DefaultDiscovery},
     behs     |-> { DefaultBehaviour,
                    [DefaultBehaviour EXCEPT !.emits = "toast"],
                    [DefaultBehaviour EXCEPT !.emits = "data", !.morphs = 1,
                        !.morph_call = [selector |-> "#manual",
                                        html |-> "<manual>", template |-> ""]],
                    [DefaultBehaviour EXCEPT !.emits = "data",
                                             !.raises = "ValueError"] },
     renders  |-> {"html", "raise"},
     extracts |-> {"ok"},
     metrics  |-> {DefaultMetrics}]

\* a mutant of take: the message that arrived last is handed over
take_latest(queue) == Len(queue)

\* the message the dispatch loop hands over: the one that arrived first
take(queue) == 1

\* the publishes of the batches of one message, in the order they were made
RECURSIVE Published(_, _, _, _)
Published(c, number, out, stage) ==
    IF out = <<>> THEN <<>>
    ELSE [i \in 1..Len(Head(out).publishes) |->
             [conn |-> c, msg |-> number, origin |-> Head(out).origin,
              stage |-> stage]]
         \o Published(c, number, Tail(out), stage)

\* a message arrives on a connection
Arrive(c) ==
    /\ connState[c] = "Connected"
    /\ inbox[c].next <= MaxArrivals
    /\ \E data \in OrderMessages :
          inbox' = [inbox EXCEPT ![c] =
                      [next  |-> @.next + 1,
                       queue |-> Append(@.queue, [number |-> @.next,
                                                  data |-> data])]]
    /\ UNCHANGED <<chVars, coVars, meVars, thVars, wire>>

\* the dispatch loop hands a waiting message to receive_json, which
\* processes it to its end
Process(c) ==
    /\ inbox[c].queue # <<>>
    /\ LET i == take(inbox[c].queue)
           m == inbox[c].queue[i]
       IN  /\ Receive(c, {m.data}, OrderWorld)
           /\ inbox' = [inbox EXCEPT ![c].queue =
                          SubSeq(@, 1, i - 1) \o SubSeq(@, i + 1, Len(@))]
           /\ wire' = wire \o Published(c, m.number, last'.out,
                                        last'.trace.error)

OrderNext ==
    \/ \E c \in Followed :
        \/ Connect(c)
        \/ Arrive(c)
        \/ Process(c)
    \/ Forget

SpecOrder == Init /\ [][OrderNext]_vars

(***************************************************************************)
(* The counter store under concurrency: two connections have each one      *)
(* invocation of the same handler processed by a thread of its own; every  *)
(* command of receive_json, lines 205-263, is one atomic step of the store.*)
(***************************************************************************)
\* name = f"{data.get('target')}" of both invocations
SharedName == <<"Counter", "#", "run">>

\* the times a thread may have measured
Samples == { [cpu |-> 1, wall |-> 2], [cpu |-> 2, wall |-> 1] }

\* the fields in the order receive_json addresses them
TotalFields == <<"count", "cpu_time_total", "wall_time_total">>
ExtremeFields == <<"wall_time_min", "wall_time_max", "cpu_time_min", "cpu_time_max">>

\* the amount an increment adds, the sample an extreme is compared with
AmountOf(field, s) ==
    IF field = "count" THEN 1
    ELSE IF field = "cpu_time_total" THEN s.cpu ELSE s.wall

SampleOf(field, s) ==
    IF field \in {"cpu_time_min", "cpu_time_max"} THEN s.cpu ELSE s.wall

IsMin(field) == field \in {"wall_time_min", "cpu_time_min"}

ConcurrentInit ==
    /\ connState = [c \in Conns |-> "Connected"]
    /\ session_key = [c \in Conns |-> SessionOf(c)]
    /\ groups = { <<SessionOf(c), c>> : c \in Conns }
    /\ reflexes = Registered
    /\ last = NoLast
    /\ perf = NoRecords
    /\ recorded = NoRecords
    /\ pc = [c \in Conns |-> <<"idle">>]
    /\ measured = [c \in Conns |-> NoSample]
    /\ reply = [c \in Conns |-> NoReply]
    /\ snapshot = [c \in Conns |-> {}]
    /\ imported = Registered
    /\ NothingArrived
    /\ ChIdle

\* lines 184-198: reflex_message returned and the times are measured
Measure(c) ==
    /\ pc[c] = <<"idle">>
    /\ \E s \in Samples : measured' = [measured EXCEPT ![c] = s]
    /\ pc' = [pc EXCEPT ![c] = <<"exists">>]
    /\ UNCHANGED <<chVars, coVars, meVars, reply, snapshot, imported, quVars>>

\* line 205: `if not redis_connection.exists(key)`
Exists(c) ==
    /\ pc[c] = <<"exists">>
    /\ pc' = [pc EXCEPT ![c] = IF exists(perf, SharedName)
                               THEN <<"hincrby", TotalFields[1]>>
                               ELSE <<"hset", "count">>]
    /\ UNCHANGED <<chVars, coVars, meVars, measured, reply, snapshot, imported, quVars>>

\* lines 206-207: hset(key, "count", 0) and expire
InitRecord(c) ==
    /\ pc[c] = <<"hset", "count">>
    /\ perf' = hset(perf, SharedName, "count", 0)
    /\ pc' = [pc EXCEPT ![c] = <<"hincrby", TotalFields[1]>>]
    /\ UNCHANGED <<chVars, coVars, recorded, measured, reply, snapshot, imported, quVars>>

\* lines 209-215: hincrby / hincrbyfloat of the i-th total
Increment(c, i) ==
    /\ pc[c] = <<"hincrby", TotalFields[i]>>
    /\ perf' = hincrby(perf, SharedName, TotalFields[i],
                       AmountOf(TotalFields[i], measured[c]))
    /\ pc' = [pc EXCEPT ![c] = IF i < Len(TotalFields)
                               THEN <<"hincrby", TotalFields[i + 1]>>
                               ELSE <<"hget", ExtremeFields[1]>>]
    /\ UNCHANGED <<chVars, coVars, recorded, measured, reply, snapshot, imported, quVars>>

\* lines 217-263: the hget of the i-th extreme
Read(c, i) ==
    /\ pc[c] = <<"hget", ExtremeFields[i]>>
    /\ reply' = [reply EXCEPT ![c] = hget(perf, SharedName, ExtremeFields[i])]
    /\ pc' = [pc EXCEPT ![c] = <<"hset", ExtremeFields[i]>>]
    /\ UNCHANGED <<chVars, coVars, meVars, measured, snapshot, imported, quVars>>

\* lines 217-263: the comparison with the reply and the hset it may lead to
Write(c, i) ==
    /\ pc[c] = <<"hset", ExtremeFields[i]>>
    /\ LET field == ExtremeFields[i]
           mine  == SampleOf(field, measured[c])
       IN  perf' = IF reply[c].found
                   THEN IF MoreExtreme(mine, reply[c].value, IsMin(field))
                        THEN hset(perf, SharedName, field, mine) ELSE perf
                   ELSE hset(perf, SharedName, field, mine)
    /\ pc' = [pc EXCEPT ![c] = IF i < Len(ExtremeFields)
                               THEN <<"hget", ExtremeFields[i + 1]>> ELSE <<"done">>]
    /\ UNCHANGED <<chVars, coVars, recorded, measured, reply, snapshot, imported, quVars>>

ConcurrentNext ==
    \E c \in Conns :
        \/ Measure(c)
        \/ Exists(c)
        \/ InitRecord(c)
        \/ \E i \in 1..Len(TotalFields) : Increment(c, i)
        \/ \E i \in 1..Len(ExtremeFields) : Read(c, i)
        \/ \E i \in 1..Len(ExtremeFields) : Write(c, i)

SpecConcurrent == ConcurrentInit /\ [][ConcurrentNext]_vars

(***************************************************************************)
(* Discovery under concurrency: on a cold start two connections have each  *)
(* one invocation processed by a thread of its own; the registry is the    *)
(* class attribute BaseConsumer.reflexes, shared by all of them.           *)
(***************************************************************************)
\* the Reflex subclasses the reflexes module of each installed app defines,
\* in the order of apps.app_configs
AppClasses == << { <<"Counter">> }, { <<"Toast">> } >>

\* a mutant of append_reflex: the registry is filled only while it is empty
append_reflex_once(reg, subclasses) == IF reg = {} THEN subclasses ELSE reg

\* append_reflex: self.reflexes.update({cls.__name__: cls for cls in ...})
append_reflex(reg, subclasses) == reg \cup subclasses

DiscoveryInit ==
    /\ connState = [c \in Conns |-> "Connected"]
    /\ session_key = [c \in Conns |-> SessionOf(c)]
    /\ groups = { <<SessionOf(c), c>> : c \in Conns }
    /\ reflexes = {}
    /\ last = NoLast
    /\ perf = NoRecords
    /\ recorded = NoRecords
    /\ pc = [c \in Conns |-> <<"idle">>]
    /\ measured = [c \in Conns |-> NoSample]
    /\ reply = [c \in Conns |-> NoReply]
    /\ snapshot = [c \in Conns |-> {}]
    /\ imported = {}
    /\ NothingArrived
    /\ ChIdle

\* reflex_message, line 350: `if not self.reflexes`
CheckRegistry(c) ==
    /\ pc[c] = <<"idle">>
    /\ pc' = [pc EXCEPT ![c] = IF reflexes = {} THEN <<"import", 1>>
                               ELSE <<"get", "skipped">>]
    /\ UNCHANGED <<chVars, coVars, meVars, measured, reply, snapshot, imported, quVars>>

\* load_reflexes_from_config: import_module(import_path) of the i-th app
ImportModule(c, i) ==
    /\ pc[c] = <<"import", i>>
    /\ imported' = imported \cup AppClasses[i]
    /\ pc' = [pc EXCEPT ![c] = <<"subclasses", i>>]
    /\ UNCHANGED <<chVars, coVars, meVars, measured, reply, snapshot, quVars>>

\* append_reflex: the comprehension over Reflex.__subclasses__()
Subclasses(c, i) ==
    /\ pc[c] = <<"subclasses", i>>
    /\ snapshot' = [snapshot EXCEPT ![c] = imported]
    /\ pc' = [pc EXCEPT ![c] = <<"update", i>>]
    /\ UNCHANGED <<chVars, coVars, meVars, measured, reply, imported, quVars>>

\* append_reflex: self.reflexes.update(...)
AppendReflex(c, i) ==
    /\ pc[c] = <<"update", i>>
    /\ reflexes' = append_reflex(reflexes, snapshot[c])
    /\ pc' = [pc EXCEPT ![c] = IF i < Len(AppClasses) THEN <<"import", i + 1>>
                               ELSE <<"get", "loaded">>]
    /\ UNCHANGED <<connState, session_key, groups, last, chVars, meVars,
                   measured, reply, snapshot, imported, quVars>>

\* reflex_message, line 383: self.reflexes.get(reflex_class_name), for every
\* name of a registered class
GetClass(c) ==
    /\ pc[c][1] = "get"
    /\ reply' = [reply EXCEPT ![c] =
                    [found |-> \A cls \in Registered : cls \in reflexes, value |-> 0]]
    /\ pc' = [pc EXCEPT ![c] = <<"done", pc[c][2]>>]
    /\ UNCHANGED <<chVars, coVars, meVars, measured, snapshot, imported, quVars>>

DiscoveryNext ==
    \E c \in Conns :
        \/ CheckRegistry(c)
        \/ \E i \in 1..Len(AppClasses) : ImportModule(c, i)
        \/ \E i \in 1..Len(AppClasses) : Subclasses(c, i)
        \/ \E i \in 1..Len(AppClasses) : AppendReflex(c, i)
        \/ GetClass(c)

SpecDiscovery == DiscoveryInit /\ [][DiscoveryNext]_vars

(***************************************************************************)
(* Claims about the Channel (checked under SpecChannel)                    *)
(***************************************************************************)
Broadcasted == chLastOp = "broadcast"

\* C1: for a destination of the composite form "specific.A!G" and identifier
\* I, one broadcast() makes exactly two publishes: a direct send to the
\* connection the destination names, carrying I, then a group send to group
\* G carrying {"channel":"G"}; both carry the same operations, and the first
\* message keeps identifier I.
C1_CompositeTwoPublishes ==
    (Broadcasted /\ IsComposite(name)) =>
        /\ chRaised = "none"
        /\ Len(chSent) = 2
        /\ chSent[1].via = "send"
        /\ chSent[1].to = name
        /\ chSent[1].message.identifier = identifier
        /\ chSent[2].via = "group_send"
        /\ chSent[2].to = GroupPart(name)
        /\ chSent[2].message.identifier = ChannelIdentifier(GroupPart(name))
        /\ chSent[1].message.operations = chSent[2].message.operations

C1_Witness ==
    /\ Broadcasted
    /\ name = <<"specific.", "a", "!", "g">>
    /\ identifier = <<"I">>
    /\ Len(chSent) = 2
    /\ chSent[1].message.identifier = <<"I">>
    /\ chSent[2].to = <<"g">>
    /\ "morph" \in DOMAIN chSent[2].message.operations

\* C2: every published message has a key for a kind exactly when an
\* operation of that kind was queued since the last broadcast() that
\* returned; no key maps to an empty sequence, and a batch with nothing
\* queued publishes an empty operations map.
C2_KeysIffQueued ==
    \A i \in 1..Len(chSent) :
        /\ \A k \in Kinds :
              (camelcase(k) \in DOMAIN chSent[i].message.operations)
                  <=> (chBefore[k] > 0)
        /\ \A ck \in DOMAIN chSent[i].message.operations :
              chSent[i].message.operations[ck] # <<>>

C2_Witness ==
    /\ Broadcasted
    /\ Len(chSent) >= 1
    /\ chBefore["dispatch_event"] = 2
    /\ chBefore["morph"] = 0
    /\ DOMAIN chSent[1].message.operations = {"dispatchEvent"}

\* a batch with nothing queued is published with an empty operations map
C2_EmptyWitness ==
    /\ Broadcasted
    /\ Len(chSent) >= 1
    /\ DOMAIN chSent[1].message.operations = {}

\* C3 (as claimed): after any call of broadcast(), whatever the destination
\* string and however many operations were queued, every kind's sequence is
\* empty.
C3_AlwaysClearedAfterBroadcast ==
    Broadcasted => \A k \in Kinds : operations[k] = <<>>

\* C4 (as claimed): for every destination that is not of the composite form,
\* broadcast() makes exactly one publish, a group send to the group named by
\* the destination, and no direct send.
C4_NonCompositeOneGroupSend ==
    (Broadcasted /\ ~IsComposite(name)) =>
        /\ Len(chSent) = 1
        /\ chSent[1].via = "group_send"
        /\ chSent[1].to = name

(***************************************************************************)
(* Claims about the consumer (checked under Spec)                          *)
(***************************************************************************)
IsInvocation == last.op = "invocation"

\* the batches of the latest message that `origin` made
BatchesOf(origin) == { i \in 1..Len(last.out) : last.out[i].origin = origin }

\* the messages the latest message handed to the channel layer
PublishCount(origin) ==
    LET RECURSIVE Sum(_)
        Sum(S) == IF S = {} THEN 0
                  ELSE LET i == CHOOSE x \in S : TRUE
                       IN  Len(last.out[i].publishes) + Sum(S \ {i})
    IN  Sum(BatchesOf(origin))

\* the operations of a batch, as published
OperationsOf(batch) == batch.publishes[1].message.operations

\* the body of an error broadcast, as published
BodyOf(batch) ==
    OperationsOf(batch).dispatchEvent[1].detail.stimulusReflex.serverMessage.body

\* `text` holds the token sequence `part`
Holds(text, part) ==
    \E i \in 1..Len(text) :
        /\ i + Len(part) - 1 <= Len(text)
        /\ SubSeq(text, i, i + Len(part) - 1) = part

\* the selectors an invocation asks for (["body"] when it names none)
Requested == IF last.data.selectors # <<>> THEN last.data.selectors ELSE <<"body">>

\* the batch is one morph operation per requested selector, children_only
OneMorphPerSelector(batch) ==
    /\ DOMAIN OperationsOf(batch) = {"morph"}
    /\ Len(OperationsOf(batch).morph) = Len(Requested)
    /\ \A i \in 1..Len(Requested) :
          /\ OperationsOf(batch).morph[i].selector = Requested[i]
          /\ OperationsOf(batch).morph[i].childrenOnly = TRUE

\* the invocation ran to its end and no step raised
Succeeded ==
    /\ IsInvocation
    /\ last.escaped = "none"
    /\ last.trace.invoked
    /\ last.trace.raised = NoExc

C5_ManualWitness ==
    /\ Succeeded
    /\ last.trace.is_morph
    /\ BatchesOf("handler") # {}
    /\ BatchesOf("auto") = {}

NamedClass == Split(last.data.target, "#")[1]

\* the lookup of the named class was reached and the registry does not hold it
ClassNotFound ==
    /\ IsInvocation
    /\ last.trace.lookedUp
    /\ NamedClass \notin reflexes

\* C7: when the class an invocation names is not in the registry, exactly
\* one batch is published, an error broadcast whose body names the class; no
\* handler method runs, nothing is re-rendered, the connection stays
\* Connected, and a valid invocation that follows is processed as usual.
C7_NotFoundOneError ==
    /\ ClassNotFound =>
          /\ Len(last.out) = 1
          /\ BatchesOf("error") = {1}
          /\ Holds(BodyOf(last.out[1]), NamedClass)
          /\ ~last.trace.invoked
          /\ ~last.trace.rendered
          /\ last.escaped = "none"
          /\ connState[last.conn] = "Connected"
    /\ (last.after_not_found /\ Succeeded /\ ~last.trace.is_morph
            /\ last.trace.html # "") =>
          /\ last.trace.error = "none"
          /\ Cardinality(BatchesOf("auto")) = 1
          /\ BatchesOf("error") = {}

C7_Witness ==
    /\ ClassNotFound
    /\ NamedClass = <<"Missing">>
    /\ last.trace.error = "not_found"
    /\ Len(last.out) = 1

\* a valid invocation processed after one that named a missing class
C7_SubsequentWitness ==
    /\ last.after_not_found
    /\ Succeeded
    /\ Cardinality(BatchesOf("auto")) = 1

\* the handler method was called and the call raised
HandlerRaised ==
    /\ IsInvocation
    /\ "beh" \in last.trace.used
    /\ last.trace.error \in {"invoke", "type_error"}

\* C8 (as claimed): when a registered handler's method raises, whatever the
\* class of the exception, exactly one error broadcast is published, its
\* body holds the exception's class name and its message, and nothing is
\* re-rendered.
C8_ErrorNamesClassAndMessage ==
    HandlerRaised =>
        /\ Cardinality(BatchesOf("error")) = 1
        /\ \A i \in BatchesOf("error") :
              /\ Holds(BodyOf(last.out[i]), <<last.trace.raised.cls>>)
              /\ Holds(BodyOf(last.out[i]), <<last.trace.raised.msg>>)
        /\ BatchesOf("auto") = {}
        /\ ~last.trace.rendered

\* an inbound message was processed
Processed == last.op \in {"invocation", "subscribe", "unsubscribe", "unsupported"}

\* C9 (as claimed): whatever fields an inbound message carries or lacks and
\* whichever step fails, no exception leaves the consumer and the connection
\* is still Connected afterwards.
C9_NoExceptionEscapes ==
    Processed =>
        /\ last.escaped = "none"
        /\ connState[last.conn] = "Connected"

\* C10 (as claimed): when the target does not split into exactly
\* "HandlerName#methodName", processing stops there: no registry lookup, no
\* handler is constructed or invoked, no batch is published, and the
\* connection stays Connected.
C10_SplitFailureStops ==
    (IsInvocation /\ InvocationKeys \subseteq DOMAIN last.data
         /\ Len(Split(last.data.target, "#")) # 2) =>
        /\ ~last.trace.loaded
        /\ ~last.trace.lookedUp
        /\ ~last.trace.constructed
        /\ ~last.trace.invoked
        /\ last.out = <<>>
        /\ connState[last.conn] = "Connected"

\* the handler method ran and called morph() with no argument at all
EmptyMorphCalled ==
    /\ IsInvocation
    /\ last.trace.invoked
    /\ last.beh.morphs > 0
    /\ IsEmptyMorph(last.beh.morph_call)

\* C11 (as claimed): a call of morph() with no selector, no html and no
\* template publishes exactly one batch, which holds exactly one
\* dispatch_event operation, named "empty_morph", and no morph operation.
C11_EmptyMorphEvent ==
    EmptyMorphCalled =>
        /\ Cardinality(BatchesOf("handler")) = last.beh.morphs
        /\ \A i \in BatchesOf("handler") :
              /\ DOMAIN OperationsOf(last.out[i]) = {"dispatchEvent"}
              /\ Len(OperationsOf(last.out[i]).dispatchEvent) = 1
              /\ OperationsOf(last.out[i]).dispatchEvent[1].name = "empty_morph"

(***************************************************************************)
(* Claims about the day's records (checked under SpecMetrics)              *)
(***************************************************************************)
SumOf(samples, field) ==
    LET RECURSIVE Sum(_)
        Sum(n) == IF n = 0 THEN 0 ELSE samples[n][field] + Sum(n - 1)
    IN  Sum(Len(samples))

MinOf(samples, field) ==
    CHOOSE v \in { samples[i][field] : i \in 1..Len(samples) } :
        \A i \in 1..Len(samples) : v <= samples[i][field]

MaxOf(samples, field) ==
    CHOOSE v \in { samples[i][field] : i \in 1..Len(samples) } :
        \A i \in 1..Len(samples) : v >= samples[i][field]

\* C12: after the invocation messages of a day for one handler were processed
\* one after another, with the times that were measured, the day's record of
\* that handler holds their number as count, their sums as the two totals,
\* and their least and greatest as the two minima and maxima; a handler with
\* no sample has no record.
C12_RecordAggregatesSamples ==
    /\ DOMAIN perf = DOMAIN recorded
    /\ \A key \in DOMAIN recorded :
          LET samples == recorded[key]
              record == perf[key]
          IN  /\ DOMAIN record = {"count", "cpu_time_total", "wall_time_total",
                                  "wall_time_min", "wall_time_max",
                                  "cpu_time_min", "cpu_time_max"}
              /\ record.count = Len(samples)
              /\ record.wall_time_total = SumOf(samples, "wall")
              /\ record.cpu_time_total = SumOf(samples, "cpu")
              /\ record.wall_time_min = MinOf(samples, "wall")
              /\ record.wall_time_max = MaxOf(samples, "wall")
              /\ record.cpu_time_min = MinOf(samples, "cpu")
              /\ record.cpu_time_max = MaxOf(samples, "cpu")

\* two samples of one handler in a day, the second with the smaller wall time
\* and the greater cpu time: every minimum and maximum had to be compared
C12_Witness ==
    \E key \in DOMAIN recorded :
        /\ Len(recorded[key]) = 2
        /\ recorded[key][2].wall < recorded[key][1].wall
        /\ recorded[key][2].cpu > recorded[key][1].cpu
        /\ perf[key].count = 2
        /\ last.op = "invocation" /\ last.data.target = key

\* C13: when a command of the counter store or the profiler fails, before or
\* after the invocation, the handler is still invoked, no exception leaves
\* receive_json and the connection goes on to its next message.
C13_MetricsFailureHarmless ==
    (last.op = "invocation" /\ last.metrics.mode # "ok")
        => /\ last.trace.entered
           /\ last.escaped = "none"
           /\ connState[last.conn] = "Connected"

(***************************************************************************)
(* Claims about group membership (checked under Spec)                      *)
(***************************************************************************)
MembershipsOf(c, grp) == { m[1] : m \in { x \in grp : x[2] = c } }

\* C14: a connection that has disconnected is a member of no group, neither
\* of its session group nor of a group it joined by a subscribe message,
\* whatever subscribe and unsubscribe messages were processed before.
C14_NoMembershipAfterDisconnect ==
    \A c \in Conns :
        connState[c] = "Disconnected" => MembershipsOf(c, groups) = {}

\* a disconnect of a connection that was in its session group and in two
\* groups it had subscribed to
C14_Witness ==
    /\ last.op = "disconnect"
    /\ connState[last.conn] = "Disconnected"
    /\ session_key[last.conn] \in MembershipsOf(last.conn, last.groups_before)
    /\ Cardinality(MembershipsOf(last.conn, last.groups_before)) >= 3
    /\ MembershipsOf(last.conn, groups) = {}

(***************************************************************************)
(* Claims about connect and the control messages (checked under            *)
(* SpecGroups)                                                             *)
(***************************************************************************)
\* the connections a message sent to group `g` is delivered to
MembersOf(g, grp) == { m[2] : m \in { x \in grp : x[1] = g } }

IsCookie(message) ==
    /\ message.type = "message" /\ message.meta_type = "cookie"
    /\ message.key = "sessionid"

\* C15: a connect leaves the connection with a session key (the one it had,
\* or one created now) and in the group of that name; the cookie message is
\* sent if and only if the key was created now, it carries the key, and the
\* only connection it is delivered to is the connecting one.
C15_ConnectJoinsAndSendsCookie ==
    [][\A c \in Conns :
          (connState[c] = "Connecting" /\ connState'[c] = "Connected")
          => /\ session_key'[c] # <<>>
             /\ session_key[c] # <<>> => session_key'[c] = session_key[c]
             /\ groups' = groups \cup { <<session_key'[c], c>> }
             /\ last'.op = "connect" /\ last'.escaped = "none"
             /\ IF session_key[c] = <<>>
                THEN /\ Len(last'.out) = 1
                     /\ Len(last'.out[1].publishes) = 1
                     /\ IsCookie(last'.out[1].publishes[1].message)
                     /\ last'.out[1].publishes[1].message.value = session_key'[c]
                     /\ MembersOf(last'.out[1].publishes[1].to, groups') = {c}
                ELSE last'.out = <<>>]_vars

\* a connection without a session key connects while another connection is
\* connected: its session is created and the cookie message is sent
C15_Witness ==
    /\ last.op = "connect"
    /\ Len(last.out) = 1
    /\ IsCookie(last.out[1].publishes[1].message)
    /\ MembersOf(last.out[1].publishes[1].to, groups) = {last.conn}
    /\ \E other \in Conns \ {last.conn} : connState[other] = "Connected"

\* a connection that has a session key connects: no cookie message
C15_ExistingSessionWitness ==
    /\ last.op = "connect"
    /\ last.out = <<>>
    /\ <<session_key[last.conn], last.conn>> \in groups
    /\ \E other \in Conns \ {last.conn} :
          <<session_key[last.conn], other>> \in groups

\* the group a channelName text stands for: the "channel" value of an
\* envelope, the text itself otherwise, '=' and '%' replaced by '-'
NamedGroup(s) ==
    LET n == IF IsEnvelope(s) THEN SubSeq(s, 2, Len(s) - 1) ELSE s
    IN  [i \in 1..Len(n) |-> IF n[i] \in {"=", "%"} THEN "-" ELSE n[i]]

\* C16: a subscribe message whose channelName is a text s (an envelope, a
\* plain name, or JSON that is no envelope, such as a number) makes the
\* connection a member of the one group s stands for, and changes no other
\* membership.
C16_SubscribeJoinsNamedGroup ==
    (last.op = "subscribe" /\ "channelName" \in DOMAIN last.data)
        => /\ last.escaped = "none"
           /\ groups = last.groups_before
                          \cup { <<NamedGroup(last.data.channelName), last.conn>> }

\* the memberships a subscribe message with the channelName of `data` gives
\* connection c
JoinedBy(c, data) == subscribe(c, data, {}).groups

\* C17: an unsubscribe message with the channelName of a subscribe message
\* that joined a group takes the connection out of that very group and
\* changes no other membership; an unsubscribe message without channelName
\* changes no membership; neither raises.
C17_UnsubscribeLeavesWhatSubscribeJoined ==
    last.op = "unsubscribe"
        => IF "channelName" \notin DOMAIN last.data
           THEN last.escaped = "none" /\ groups = last.groups_before
           ELSE JoinedBy(last.conn, last.data) # {}
                   => /\ last.escaped = "none"
                      /\ groups = last.groups_before \ JoinedBy(last.conn, last.data)

\* an unsubscribe of a connection that was in the group its channelName
\* stands for, a name with '=' and '%', and in another subscribed group
C17_Witness ==
    /\ last.op = "unsubscribe"
    /\ "channelName" \in DOMAIN last.data
    /\ \E i \in 1..Len(last.data.channelName) : last.data.channelName[i] = "="
    /\ JoinedBy(last.conn, last.data) # {}
    /\ JoinedBy(last.conn, last.data) \subseteq last.groups_before
    /\ JoinedBy(last.conn, last.data) \cap groups = {}
    /\ Cardinality(MembershipsOf(last.conn, groups)) >= 2

\* an unsubscribe without channelName of a connection that is in a
\* subscribed group
C17_NoNameWitness ==
    /\ last.op = "unsubscribe"
    /\ "channelName" \notin DOMAIN last.data
    /\ Cardinality(MembershipsOf(last.conn, groups)) >= 2
    /\ connState[last.conn] = "Connected"

(***************************************************************************)
(* Claims about discovery and error broadcasts (checked under Spec)        *)
(***************************************************************************)
\* C19: when discovery fails while a message is processed, no handler is
\* invoked for that message and the registry is left empty, so that the next
\* invocation message runs discovery again, also when the failure came after
\* some classes were found.
C19_FailedDiscoveryLeavesRegistryEmpty ==
    (last.op = "invocation" /\ last.trace.loaded /\ last.trace.error = "load")
        => /\ ~last.trace.constructed
           /\ ~last.trace.invoked
           /\ reflexes = {}

\* C18: every error broadcast of an invocation message is published to the
\* routing identity of the handler (what its get_channel_id() returns) when a
\* handler instance was constructed for the message, and to the session key
\* of the connection when none was.
C18_ErrorsGoToRoutingIdentity ==
    IsInvocation =>
        \A i \in BatchesOf("error") :
            \A j \in 1..Len(last.out[i].publishes) :
                last.out[i].publishes[j].to =
                    IF last.trace.constructed
                    THEN get_channel_id(NamedClass, session_key[last.conn])
                    ELSE session_key[last.conn]

(***************************************************************************)
(* Claims about the kinds of a Channel (checked under SpecKinds)           *)
(***************************************************************************)
\* C20: the kinds of a Channel are the same fixed set from its construction
\* on, after every add_operation and every broadcast (which clears); an
\* add_operation that names another kind ends with an error, leaves every
\* queued sequence as it was and publishes nothing.
C20_UnknownKindFails ==
    /\ DOMAIN operations = Kinds
    /\ [][/\ DOMAIN operations' = Kinds
          /\ (chLastOp' = "add" /\ chKey' # "none")
                => /\ chRaised' # "none"
                   /\ operations' = operations
                   /\ chSent' = <<>>
          /\ (chLastOp' = "add" /\ chKey' = "none") => chRaised' = "none"]_vars

\* an add_operation with an unknown kind on a Channel that has an operation
\* queued
C20_Witness ==
    /\ chLastOp = "add"
    /\ chKey \in UnknownKinds
    /\ chRaised = "KeyError"
    /\ TotalQueued(operations) > 0
    /\ chSent = <<>>

(***************************************************************************)
(* Claims about the branches of receive_json (checked under SpecMetrics)   *)
(***************************************************************************)
HasTarget(data) == "target" \in DOMAIN data /\ data.target # <<>>

HasType(data) == "type" \in DOMAIN data

\* nothing but the history of the message itself was touched
NothingDone ==
    /\ groups' = groups
    /\ perf' = perf
    /\ reflexes' = reflexes
    /\ connState' = connState
    /\ ~last'.trace.entered
    /\ last'.out = <<>>
    /\ last'.escaped = "none"

\* C21: a message is handled as an invocation exactly when it has no type and
\* a non-empty target; a message of type "subscribe" or "unsubscribe" is
\* handled as that control message alone, also when it carries a target; any
\* other message changes no membership, invokes no handler, records no
\* metrics and publishes nothing.
C21_InvocationIffNoTypeAndTarget ==
    [][last'.op \in {"invocation", "subscribe", "unsubscribe", "unsupported"}
         => LET data == last'.data
            IN  /\ last'.op = "invocation"
                      <=> (~HasType(data) /\ HasTarget(data))
                /\ (HasType(data) /\ data.type \in {"subscribe", "unsubscribe"})
                      => /\ last'.op = data.type
                         /\ ~last'.trace.entered
                         /\ last'.out = <<>>
                         /\ perf' = perf
                         /\ reflexes' = reflexes
                /\ last'.op = "unsupported" => NothingDone
                /\ last'.op \in {"subscribe", "unsubscribe"} => HasType(data)]_vars

\* a subscribe message that carries a target, received when the day's
\* records hold a sample: the group is joined and nothing is invoked
C21_Witness ==
    /\ last.op = "subscribe"
    /\ HasTarget(last.data)
    /\ <<TransportSafe(last.data.channelName), last.conn>> \in groups \ last.groups_before
    /\ perf # NoRecords
    /\ ~last.trace.entered

\* a message of unknown type that carries a target, and a message with no
\* type and an empty target, are both "Unsupported"
C21_UnsupportedWitness ==
    /\ last.op = "unsupported"
    /\ HasTarget(last.data) /\ HasType(last.data)
    /\ perf # NoRecords

C21_EmptyTargetWitness ==
    /\ last.op = "unsupported"
    /\ ~HasType(last.data)
    /\ "target" \in DOMAIN last.data
    /\ perf # NoRecords

(***************************************************************************)
(* Claims about concurrent invocations (checked under SpecConcurrent)      *)
(***************************************************************************)
AllDone == \A c \in Conns : pc[c] = <<"done">>

LeastOf(S) == CHOOSE v \in S : \A w \in S : v <= w
GreatestOf(S) == CHOOSE v \in S : \A w \in S : v >= w

\* C22: when the invocations of one handler that two connections process at
\* the same time have all completed, the day's record holds their number as
\* count, the sums of their times as totals and the least and greatest of
\* their times as minima and maxima, however their commands interleaved.
C22_ConcurrentSamplesAllCounted ==
    AllDone =>
        LET record == perf[SharedName]
            cpus   == { measured[c].cpu : c \in Conns }
            walls  == { measured[c].wall : c \in Conns }
        IN  /\ record.count = Cardinality(Conns)
            /\ record.cpu_time_total = measured["c1"].cpu + measured["c2"].cpu
            /\ record.wall_time_total = measured["c1"].wall + measured["c2"].wall
            /\ record.wall_time_min = LeastOf(walls)
            /\ record.wall_time_max = GreatestOf(walls)
            /\ record.cpu_time_min = LeastOf(cpus)
            /\ record.cpu_time_max = GreatestOf(cpus)

\* a discovery has completed: some thread is past its last update
DiscoveryCompleted ==
    \E c \in Conns : pc[c] \in { <<"get", "loaded">>, <<"done", "loaded">> }

\* C23: when two connections find the registry empty and run discovery at
\* the same time, every interleaving ends with the registry a single
\* discovery gives, and once any discovery has completed no lookup of a
\* registered class gives "not found".
C23_ConcurrentDiscoverySameRegistry ==
    /\ (\A c \in Conns : pc[c][1] = "done") => reflexes = Registered
    /\ DiscoveryCompleted => reflexes = Registered
    /\ [][\A c \in Conns :
            (DiscoveryCompleted /\ pc[c][1] = "get" /\ pc'[c][1] = "done")
               => reply'[c].found]_vars

\* both connections found the registry empty, ran discovery and resolved the
\* registered classes
C23_Witness ==
    /\ \A c \in Conns : pc[c] = <<"done", "loaded">> /\ reply[c].found
    /\ reflexes = Registered

\* the option maps queued for one kind of one instance, as a reader of
\* operations[kind] finds them
QueuedMaps(b, method) ==
    [i \in 1..Len(queues[b][method]) |-> heap[queues[b][method][i]]]

\* C24: each call of an operation method appends one option map, in call
\* order, with exactly the keys and values that call supplied (as options
\* map or as keyword arguments); no later call, on the same or on another
\* instance, changes a queued map or inherits keys of an earlier call.
C24_EachCallQueuesWhatItSupplied ==
    \A b \in Batches, method \in OpMethods :
        QueuedMaps(b, method) = supplied[b][method]

\* the invocation got as far as the extracted fragments: the method returned,
\* it made no manual morph, the page rendered to markup and the fragments
\* were cut out of it
ReadyToMorph ==
    /\ IsInvocation
    /\ last.escaped = "none"
    /\ last.trace.invoked
    /\ ~last.trace.is_morph
    /\ "extract" \in last.trace.used
    /\ last.trace.raised.cls # "SelectorSyntaxError"

NoPermanentName ==
    /\ "permanentAttributeName" \notin DOMAIN last.data
    /\ "permanent_attribute_name" \notin DOMAIN last.data

\* C25: a request that carries neither permanentAttributeName nor
\* permanent_attribute_name, whose method returns without a manual morph,
\* still gets the automatic morph batch and no error broadcast.
C25_PermanentNameOptional ==
    (ReadyToMorph /\ NoPermanentName) =>
        /\ Cardinality(BatchesOf("auto")) = 1
        /\ BatchesOf("error") = {}
        /\ last.trace.error = "none"

(***************************************************************************)
(* Claims about handler methods (checked under SpecHandlers)               *)
(***************************************************************************)
\* C26: the flag is false when the instance is created and true once the
\* method has called morph(), whether the morph was empty, published a
\* batch, or failed to render its template before publishing anything; it
\* does not go back to false.  When it is true at the end of an invocation
\* that raised nothing, no automatic re-render is made.
C26_FlagSetByEveryMorph ==
    (IsInvocation /\ last.trace.constructed) =>
        /\ last.trace.is_morph <=> (last.trace.invoked /\ last.beh.morphs > 0)
        /\ (Succeeded /\ last.trace.is_morph) =>
              (BatchesOf("auto") = {} /\ ~last.trace.rendered)

\* the method caught the exception of a morph() whose template did not
\* render: nothing was published, and the flag is set
C26_Witness ==
    /\ Succeeded
    /\ last.beh.catches
    /\ MorphFails(last.beh.morph_call)
    /\ last.trace.is_morph
    /\ last.out = <<>>

\* the same morph(), not caught: the invocation fails with the flag set
C26_UncaughtWitness ==
    /\ IsInvocation
    /\ last.trace.raised.cls = "TemplateDoesNotExist"
    /\ last.trace.is_morph
    /\ BatchesOf("handler") = {}
    /\ BatchesOf("error") # {}

\* an empty morph
C26_EmptyMorphWitness ==
    /\ Succeeded
    /\ last.beh.morphs > 0
    /\ IsEmptyMorph(last.beh.morph_call)
    /\ last.trace.is_morph
    /\ BatchesOf("auto") = {}

\* C27: a method that publishes a toast or server data and never calls
\* morph() leaves the flag false, and the automatic re-render follows as for
\* a method that publishes nothing: the page is rendered, and its markup, if
\* any, is published as one batch.
C27_NotificationsLeaveFlag ==
    (Succeeded /\ last.beh.emits # "none" /\ last.beh.morphs = 0) =>
        /\ ~last.trace.is_morph
        /\ last.trace.rendered
        /\ (last.trace.html # "") => Cardinality(BatchesOf("auto")) = 1

C27_Witness ==
    /\ Succeeded
    /\ last.beh.emits = "toast"
    /\ last.beh.morphs = 0
    /\ Cardinality(BatchesOf("toast")) = 2
    /\ Cardinality(BatchesOf("auto")) = 1

C27_DataWitness ==
    /\ Succeeded
    /\ last.beh.emits = "data"
    /\ last.beh.morphs = 0
    /\ Cardinality(BatchesOf("data")) = 1
    /\ Cardinality(BatchesOf("auto")) = 1

\* `data["args"] if data.get("args") else []`
ArgsOf(data) == IF "args" \in DOMAIN data THEN data.args ELSE <<>>

\* C28: a request that names a registered class and a method of it has the
\* method called exactly once: with the request's args (none when args is
\* absent or empty) if the method declares a parameter, with no arguments
\* if it declares none.
C28_MethodCalledOnceWithArgs ==
    (IsInvocation /\ last.trace.constructed
       /\ Split(last.data.target, "#")[2] \in HandlerMethods) =>
        /\ last.trace.calls = 1
        /\ last.trace.called_with =
              IF last.beh.params >= 1 THEN ArgsOf(last.data) ELSE <<>>

\* args given to a method that declares no parameter
C28_Witness ==
    /\ Succeeded
    /\ last.beh.params = 0
    /\ ArgsOf(last.data) = <<"x">>
    /\ last.trace.calls = 1
    /\ last.trace.called_with = <<>>

\* args given to a method that declares one
C28_PassedWitness ==
    /\ Succeeded
    /\ last.beh.params = 1
    /\ last.trace.calls = 1
    /\ last.trace.called_with = <<"x">>

\* no args in the request, and a method that declares a parameter
C28_AbsentWitness ==
    /\ IsInvocation
    /\ "args" \notin DOMAIN last.data
    /\ last.beh.params = 1
    /\ last.trace.calls = 1
    /\ last.trace.called_with = <<>>

(***************************************************************************)
(* Claims about repeated disconnects (checked under SpecGroups)            *)
(***************************************************************************)
\* C29: disconnect() run for a connection that has already disconnected
\* raises nothing and leaves every group membership as it was; a connection
\* that has disconnected stays disconnected and joins no group again.
C29_DisconnectIdempotentAndTerminal ==
    /\ (last.op = "disconnect_again") =>
          (last.escaped = "none" /\ groups = last.groups_before)
    /\ [][\A c \in Conns :
            connState[c] = "Disconnected" =>
               /\ connState'[c] = "Disconnected"
               /\ MembershipsOf(c, groups') = {}]_vars

\* a second disconnect while the other connection is in groups
C29_Witness ==
    /\ last.op = "disconnect_again"
    /\ last.escaped = "none"
    /\ \E c \in Conns \ {last.conn} : Cardinality(MembershipsOf(c, groups)) >= 2

(***************************************************************************)
(* Claims about the keys of the day's records (checked under SpecMetrics)  *)
(***************************************************************************)
\* the handler class a target "Class#method" names
HandlerOf(target) == Split(target, "#")[1]

\* today's samples of the invocations of one handler class
SamplesOfHandler(h) ==
    LET RECURSIVE Sum(_)
        Sum(S) == IF S = {} THEN 0
                  ELSE LET k == CHOOSE x \in S : TRUE
                       IN  Len(recorded[k]) + Sum(S \ {k})
    IN  Sum({ k \in DOMAIN recorded : HandlerOf(k) = h })

\* C30: the records are kept per handler and day: every record counts all of
\* today's invocations of its handler, whichever of its methods they
\* called, and none of another handler.
C30_OneRecordPerHandler ==
    \A key \in DOMAIN perf :
        perf[key].count = SamplesOfHandler(HandlerOf(key))

(***************************************************************************)
(* Claims about the session group (checked under SpecSession)              *)
(***************************************************************************)
\* C31: a connection that is Connected is a member of its session group,
\* whatever subscribe, unsubscribe and invocation messages it has processed.
C31_ConnectedStaysInSessionGroup ==
    \A c \in Conns :
        connState[c] = "Connected" => <<session_key[c], c>> \in groups

(***************************************************************************)
(* Claims about what one invocation publishes (checked under Spec)         *)
(***************************************************************************)
\* C32: for one invocation message the consumer publishes an automatic morph
\* batch or an error broadcast or neither, never both, and never more than
\* one error broadcast.
C32_MorphBatchOrOneError ==
    IsInvocation =>
        /\ Cardinality(BatchesOf("error")) <= 1
        /\ Cardinality(BatchesOf("auto")) <= 1
        /\ BatchesOf("auto") = {} \/ BatchesOf("error") = {}

\* the re-render failed after the method had published a batch of its own:
\* one error broadcast and no automatic batch
C32_Witness ==
    /\ IsInvocation
    /\ last.trace.error = "rerender"
    /\ Cardinality(BatchesOf("error")) = 1
    /\ BatchesOf("auto") = {}

\* the automatic batch and no error broadcast
C32_MorphWitness ==
    /\ Succeeded
    /\ Cardinality(BatchesOf("auto")) = 1
    /\ BatchesOf("error") = {}

\* C33: every invocation message whose processing returns has led to at
\* least one publish by the time the connection's next message is taken up:
\* a batch of the method, the automatic batch, or an error broadcast.
C33_EveryInvocationAnswered ==
    (IsInvocation /\ last.escaped = "none") =>
        \E i \in 1..Len(last.out) : Len(last.out[i].publishes) >= 1

(***************************************************************************)
(* Claims about the order of publishes (checked under SpecOrder)           *)
(***************************************************************************)
HandlerOrigins == {"handler", "toast", "data"}

\* the automatic batch, or the error broadcast of a failed re-render
ByDispatcherAfterMethod(entry) ==
    \/ entry.origin = "auto"
    \/ entry.origin = "error" /\ entry.stage = "rerender"

\* C34: of the publishes of one connection, those of an earlier message come
\* before those of a later one, and within one message those the method
\* made itself (morph, send_toast, broadcast_server_data) come before the
\* automatic batch or the error broadcast of the re-render.
C34_PublishesInOrder ==
    \A i, j \in 1..Len(wire) :
        (i < j /\ wire[i].conn = wire[j].conn) =>
            /\ wire[i].msg <= wire[j].msg
            /\ (wire[i].msg = wire[j].msg /\ ByDispatcherAfterMethod(wire[i]))
                  => wire[j].origin \notin HandlerOrigins

\* two messages of one connection: the first published a batch of its
\* method and then the automatic one, the second published after it
C34_Witness ==
    \E i, j, k \in 1..Len(wire) :
        /\ i < j /\ j < k
        /\ wire[i].conn = wire[j].conn /\ wire[j].conn = wire[k].conn
        /\ wire[i].msg = 1 /\ wire[i].origin \in HandlerOrigins
        /\ wire[j].msg = 1 /\ wire[j].origin = "auto"
        /\ wire[k].msg = 2

\* a re-render that failed after the method had published
C34_RerenderErrorWitness ==
    \E i, j \in 1..Len(wire) :
        /\ i < j
        /\ wire[i].conn = wire[j].conn /\ wire[i].msg = wire[j].msg
        /\ wire[i].origin \in HandlerOrigins
        /\ wire[j].origin = "error" /\ wire[j].stage = "rerender"

(***************************************************************************)
(* Claims about when the records change (checked under SpecMetrics)        *)
(***************************************************************************)
\* the count of a day's record, 0 when there is none
CountOf(store, key) ==
    IF key \in DOMAIN store /\ "count" \in DOMAIN store[key]
    THEN store[key].count ELSE 0

\* C35, for messages processed one after another: an invocation message
\* whose processing returns adds exactly one to the count of its record and
\* touches no other record, also when it ended in an error broadcast; a
\* control message changes no record.
C35_CountedOncePerInvocation ==
    [][/\ (last'.op = "invocation" /\ last'.escaped = "none") =>
             /\ CountOf(perf', last'.data.target)
                   = CountOf(perf, last'.data.target) + 1
             /\ \A key \in (DOMAIN perf \cup DOMAIN perf') \ {last'.data.target} :
                   /\ key \in DOMAIN perf /\ key \in DOMAIN perf'
                   /\ perf'[key] = perf[key]
       /\ last'.op \in {"subscribe", "unsubscribe", "unsupported"} =>
             perf' = perf]_vars

\* the second invocation of a day that names a class that does not exist:
\* an error broadcast, and the count is 2
C35_Witness ==
    /\ IsInvocation
    /\ last.escaped = "none"
    /\ last.trace.error = "not_found"
    /\ Cardinality(BatchesOf("error")) = 1
    /\ CountOf(perf, last.data.target) = 2

\* the method raised
C35_RaisedWitness ==
    /\ IsInvocation
    /\ last.escaped = "none"
    /\ last.trace.error = "invoke"
    /\ CountOf(perf, last.data.target) = 2

\* a control message received when the day's records hold a sample
C35_ControlWitness ==
    /\ last.op \in {"subscribe", "unsubscribe"}
    /\ perf # NoRecords

\* C35, for messages of two connections processed at the same time: the
\* count of the record is raised by one for every invocation message whose
\* processing has returned.
C35_EveryReturnedInvocationCounted ==
    CountOf(perf, SharedName)
        >= Cardinality({ c \in Conns : pc[c] = <<"done">> })

(***************************************************************************)
(* Claims about whose memberships change (checked under SpecSession)       *)
(***************************************************************************)
\* C36: connect, subscribe, unsubscribe and disconnect of one connection
\* leave the group memberships of every other connection as they were, and
\* an invocation message changes no membership at all.
C36_OnlyOwnMembershipsChange ==
    [][/\ last'.op \in {"connect", "subscribe", "unsubscribe", "disconnect"} =>
             \A d \in Conns \ {last'.conn} :
                 MembershipsOf(d, groups') = MembershipsOf(d, groups)
       /\ last'.op = "invocation" => groups' = groups]_vars

\* a connection disconnected while the other connection of its session was
\* in the session group, which it still is
C36_Witness ==
    /\ last.op = "disconnect"
    /\ \E d \in Conns \ {last.conn} :
          /\ session_key[d] = session_key[last.conn]
          /\ <<session_key[d], d>> \in last.groups_before
          /\ <<session_key[d], d>> \in groups

\* a connection left a group the other connection is in
C36_UnsubscribeWitness ==
    /\ last.op = "unsubscribe"
    /\ <<<<"Room1">>, last.conn>> \in last.groups_before
    /\ <<<<"Room1">>, last.conn>> \notin groups
    /\ \E d \in Conns \ {last.conn} : <<<<"Room1">>, d>> \in groups

\* an invocation of a connection that is in two groups
C36_InvocationWitness ==
    /\ IsInvocation
    /\ Cardinality(MembershipsOf(last.conn, groups)) >= 2
    /\ groups = last.groups_before


====
